---- MODULE Spec2Model ----
(***************************************************************************)
(* Waypoint-graph geometry engine of Lane-Tool (src/src/app.js).           *)
(*                                                                         *)
(* Lengths are integers in units of 1/80 m (so 0.25 m = 20, 0.1 m = 8,     *)
(* 1.0 m = 80).  Positions are the x/y components; z is carried by the     *)
(* code but never enters a decision modelled here (addPoint forces z = 0   *)
(* and the lane normal is (-dir.y, dir.x, 0)).  The store keeps ROS        *)
(* coordinates, the scene keeps three.js coordinates minus mapOffset.      *)
(* The weight column of edge_graph is written but never read by the        *)
(* engine and is left out.                                                 *)
(***************************************************************************)
EXTENDS Integers, Sequences, FiniteSets, TLC

VARIABLES
    mapOffset,            \* this.mapOffset
    dbOpen,               \* this.db !== null
    waypoints,            \* table waypoints: id -> [x, y, width_left, width_right] (ROS)
    edge_graph,           \* table edge_graph: sequence of rows [id1, id2]
    junction_points,      \* table junction_points: sequence of rows
    seq,                  \* sqlite_sequence of waypoints (AUTOINCREMENT)
    waypointsData,        \* this.waypointsData: sequence of [id, pos] (three.js)
    isPersistentDrawing,  \* this.isPersistentDrawing
    isDrawingPoints,      \* this.isDrawingPoints
    drawPointsStartPoint, \* this.drawPointsStartPoint
    drawPointsStartDbId,  \* this.drawPointsStartDbId (0 = null)
    pathGroup,            \* this.pathGroup.children
    pc,                   \* position inside generateturn ("idle" outside)
    turn,                 \* locals of the running generateturn call
    last,                 \* what the last handler was called with and found
    userIns,              \* waypoint rows inserted by the editing tools so far
    nTurns,               \* generateturn calls so far
    pRows,                \* edge rows handed to the path queries
    pOut                  \* the last path query and its result

vars == <<mapOffset, dbOpen, waypoints, edge_graph, junction_points, seq,
          waypointsData, isPersistentDrawing, isDrawingPoints,
          drawPointsStartPoint, drawPointsStartDbId, pathGroup, pc, turn,
          last, userIns, nTurns, pRows, pOut>>

storeVars == <<mapOffset, dbOpen, waypoints, edge_graph, junction_points, seq,
               waypointsData, isPersistentDrawing, isDrawingPoints,
               drawPointsStartPoint, drawPointsStartDbId, pathGroup, pc, turn,
               last, userIns, nTurns>>

pathVars == <<pRows, pOut>>

(***************************************************************************)
(* Bounds of the model.                                                    *)
(***************************************************************************)
MaxUserPoints == 3    \* waypoint rows the editing tools may insert
MaxRows == 3          \* edge rows up to which the editing tools may add one
MaxFileRows == 4      \* edge rows of a loaded database file
MaxTurns == 1         \* generateturn calls
MaxTurnWaypoints == 6 \* waypoint rows up to which generateturn is called
NumNodes == 5         \* node ids of the path-query specification
MaxPathRows == 5      \* edge rows of the path-query specification
MaxSavedRows == 3     \* edge rows of a saved store with junction_points rows
MaxLaneRows == 2      \* edge rows of a file whose lane widths are edited
MaxSkipRows == 5      \* edge rows the skip set of drawLane is built from
MaxBranchRows == 3    \* edge rows of the small graphs findClosestNodeOnBranch walks
ChainEnd == 30        \* last id of the chain findClosestNodeOnBranch walks
MaxDragRows == 3      \* edge rows of a file whose waypoints are dragged
MaxStaleIds == 2      \* waypoints edited since the table was last read back
MaxRepeatTurns == 2   \* generateturn calls when the call is repeated
MaxRepeatWaypoints == 40 \* waypoint rows up to which the call is repeated
MaxRepeatRows == 3    \* edge rows of a file on which the call is repeated

(***************************************************************************)
(* Program constants, in model units.                                      *)
(***************************************************************************)
step == 20               \* const step = 0.25
minTrim == 8             \* if (trimDist < 0.1) continue
numPointsInArc == 10     \* const numPointsInArc = 10
maxBranchSteps == 20     \* for (let i = 0; i < 20; i++)
defaultWidth == 40       \* width_left REAL DEFAULT 0.5, (w || 0.5)

V(a, b) == [x |-> a, y |-> b]
VAdd(p, q) == V(p.x + q.x, p.y + q.y)
VSub(p, q) == V(p.x - q.x, p.y - q.y)
Dot(p, q) == p.x * q.x + p.y * q.y
LenSq(p) == Dot(p, p)
DistSq(p, q) == LenSq(VSub(p, q))

RECURSIVE SqrtSearch(_, _, _)
SqrtSearch(n, lo, hi) ==
    IF lo >= hi THEN lo
    ELSE LET mid == (lo + hi + 1) \div 2
         IN  IF mid * mid <= n THEN SqrtSearch(n, mid, hi)
             ELSE SqrtSearch(n, lo, mid - 1)

\* floor(Math.sqrt(n))
ISqrt(n) == SqrtSearch(n, 0, IF n < 46340 THEN n ELSE 46340)

\* a / b rounded to the nearest integer (b > 0)
RoundDiv(a, b) == (2 * a + b) \div (2 * b)

\* Vector3.distanceTo, rounded down to the unit
Dist(p, q) == ISqrt(DistSq(p, q))

\* rosToThree(v) = (-v.y, v.x, v.z); threeToRos(v) = (v.y, -v.x, v.z)
rosToThree(v) == V(-v.y, v.x)
threeToRos(v) == V(v.y, -v.x)

\* scene position of a store row, and store position of a scene point
ScenePos(row) == VSub(rosToThree(V(row.x, row.y)), mapOffset)
StorePos(p) == threeToRos(VAdd(p, mapOffset))

Max(a, b) == IF a >= b THEN a ELSE b
Min(a, b) == IF a <= b THEN a ELSE b

RECURSIVE SortedSeq(_)
SortedSeq(S) ==
    IF S = {} THEN <<>>
    ELSE LET m == CHOOSE a \in S : \A b \in S : a <= b
         IN  <<m>> \o SortedSeq(S \ {m})

Range(s) == {s[i] : i \in DOMAIN s}
Ids == DOMAIN waypoints

NewRow(rosPos) ==
    [x |-> rosPos.x, y |-> rosPos.y,
     width_left |-> defaultWidth, width_right |-> defaultWidth]

\* SELECT id, x, y, z FROM waypoints ORDER BY id, converted to the scene frame
RefreshWaypointsFromDB(wps) ==
    LET ids == SortedSeq(DOMAIN wps)
    IN  [i \in 1..Len(ids) |->
            [id |-> ids[i],
             pos |-> VSub(rosToThree(V(wps[ids[i]].x, wps[ids[i]].y)), mapOffset)]]

\* the scene position the points object shows for a store id
ShownPos(id) ==
    LET i == CHOOSE k \in DOMAIN waypointsData : waypointsData[k].id = id
    IN  waypointsData[i].pos
ShownIds == {waypointsData[i].id : i \in DOMAIN waypointsData}

(***************************************************************************)
(* Inputs of the editing tools: the scene points a click may land on, the  *)
(* map offsets a session may run with.                                     *)
(***************************************************************************)
ClickPoints == {V(0, 0), V(4, 0), V(24, 0)}
MapOffsets == {V(12, -8)}

HasRow(wps, id) == id \in DOMAIN wps
InsertWaypoint(wps, id, rosPos) == (id :> NewRow(rosPos)) @@ wps

(***************************************************************************)
(* batchAddPoints(points, startDbId, endDbId); 0 stands for null.  The     *)
(* result holds the tables after the call and the returned id.             *)
(***************************************************************************)
RECURSIVE ChainPoints(_, _, _, _, _, _)
ChainPoints(points, wps, edges, sq, lastPointId, havePos) ==
    IF points = <<>>
    THEN [wps |-> wps, edges |-> edges, seq |-> sq, lastPointId |-> lastPointId]
    ELSE LET newPointId == sq + 1
             wps1 == InsertWaypoint(wps, newPointId, StorePos(Head(points)))
             edges1 == IF lastPointId # 0 /\ havePos
                       THEN Append(edges, [id1 |-> lastPointId, id2 |-> newPointId])
                       ELSE edges
         IN  ChainPoints(Tail(points), wps1, edges1, newPointId, newPointId, TRUE)

batchAddPoints(points, startDbId, endDbId) ==
    IF points = <<>> /\ startDbId # 0 /\ endDbId # 0
    THEN [wps |-> waypoints,
          edges |-> IF HasRow(waypoints, startDbId) /\ HasRow(waypoints, endDbId)
                    THEN Append(edge_graph, [id1 |-> startDbId, id2 |-> endDbId])
                    ELSE edge_graph,
          seq |-> seq, ret |-> endDbId]
    ELSE IF points = <<>>
    THEN [wps |-> waypoints, edges |-> edge_graph, seq |-> seq, ret |-> startDbId]
    ELSE LET c == ChainPoints(points, waypoints, edge_graph, seq, startDbId,
                              startDbId # 0 /\ HasRow(waypoints, startDbId))
             edges2 == IF endDbId # 0 /\ c.lastPointId # 0 /\ HasRow(c.wps, endDbId)
                       THEN Append(c.edges, [id1 |-> c.lastPointId, id2 |-> endDbId])
                       ELSE c.edges
         IN  [wps |-> c.wps, edges |-> edges2, seq |-> c.seq,
              ret |-> IF endDbId # 0 THEN endDbId ELSE c.lastPointId]

\* Math.floor(distance / step), distance = |end - start|
NumPoints(start, end) ==
    CHOOSE n \in 0..(DistSq(start, end) \div step + 1) :
        /\ n * n * step * step <= DistSq(start, end)
        /\ (n + 1) * (n + 1) * step * step > DistSq(start, end)

\* start + direction * (i * step / distance)
PointAlong(start, end, i) ==
    LET d == VSub(end, start)
        len16 == ISqrt(LenSq(d) * 256)
    IN  V(start.x + RoundDiv(d.x * i * step * 16, len16),
          start.y + RoundDiv(d.y * i * step * 16, len16))

\* drawPoints returning on every short segment (distance < step alone)
drawPointsNoClosingEdge(start, end, startDbId, endDbId) ==
    IF DistSq(start, end) < step * step
    THEN [wps |-> waypoints, edges |-> edge_graph, seq |-> seq, ret |-> startDbId]
    ELSE LET numPoints == NumPoints(start, end)
             pointsToAdd == [i \in 1..numPoints |-> PointAlong(start, end, i)]
         IN  batchAddPoints(pointsToAdd, startDbId, endDbId)

(***************************************************************************)
(* drawPoints(start, end, startDbId, endDbId)                              *)
(***************************************************************************)
drawPoints(start, end, startDbId, endDbId) ==
    IF DistSq(start, end) < step * step /\ endDbId = 0
    THEN [wps |-> waypoints, edges |-> edge_graph, seq |-> seq, ret |-> startDbId]
    ELSE LET numPoints == NumPoints(start, end)
             pointsToAdd == [i \in 1..numPoints |-> PointAlong(start, end, i)]
         IN  batchAddPoints(pointsToAdd, startDbId, endDbId)

WithinEditBounds(r) ==
    /\ userIns + (r.seq - seq) <= MaxUserPoints
    /\ Len(r.edges) <= MaxRows

(***************************************************************************)
(* selectTool('draw-points'), and leaving the tool (Escape, another tool,  *)
(* another tab): exitPersistentDrawing.                                    *)
(***************************************************************************)
SelectDrawTool ==
    /\ pc = "idle"
    /\ ~isPersistentDrawing
    /\ isPersistentDrawing' = TRUE
    /\ last' = [op |-> "selectTool", target |-> 0, from |-> 0, short |-> FALSE]
    /\ UNCHANGED <<mapOffset, dbOpen, waypoints, edge_graph, junction_points, seq,
                   waypointsData, isDrawingPoints, drawPointsStartPoint,
                   drawPointsStartDbId, pathGroup, pc, turn, userIns, nTurns>>

exitPersistentDrawing ==
    /\ pc = "idle"
    /\ isPersistentDrawing
    /\ isPersistentDrawing' = FALSE
    /\ isDrawingPoints' = FALSE
    /\ drawPointsStartDbId' = 0
    /\ last' = [op |-> "exitDrawing", target |-> 0, from |-> 0, short |-> FALSE]
    /\ UNCHANGED <<mapOffset, dbOpen, waypoints, edge_graph, junction_points, seq,
                   waypointsData, drawPointsStartPoint, pathGroup, pc, turn,
                   userIns, nTurns>>

(***************************************************************************)
(* onPointerDown in persistent drawing.  target = 0: the click hit no      *)
(* waypoint and lands on the scene point p; target # 0: the click hit the  *)
(* waypoint shown with that id and p is its shown position.                *)
(***************************************************************************)
Click(p, target) ==
    /\ pc = "idle"
    /\ isPersistentDrawing
    /\ IF ~isDrawingPoints
       THEN LET r == IF target # 0
                     THEN [wps |-> waypoints, edges |-> edge_graph, seq |-> seq,
                           ret |-> target]
                     ELSE batchAddPoints(<<p>>, 0, 0)
            IN  /\ WithinEditBounds(r)
                /\ waypoints' = r.wps
                /\ edge_graph' = r.edges
                /\ seq' = r.seq
                /\ userIns' = userIns + (r.seq - seq)
                /\ drawPointsStartDbId' = r.ret
                /\ isDrawingPoints' = TRUE
                /\ waypointsData' = RefreshWaypointsFromDB(r.wps)
                /\ last' = [op |-> "firstClick", target |-> target, from |-> 0,
                            short |-> FALSE]
       ELSE LET r == drawPoints(drawPointsStartPoint, p, drawPointsStartDbId, target)
            IN  /\ WithinEditBounds(r)
                /\ waypoints' = r.wps
                /\ edge_graph' = r.edges
                /\ seq' = r.seq
                /\ userIns' = userIns + (r.seq - seq)
                /\ drawPointsStartDbId' = IF target # 0 THEN target ELSE r.ret
                /\ isDrawingPoints' = TRUE
                /\ waypointsData' = RefreshWaypointsFromDB(r.wps)
                /\ last' = [op |-> "click", target |-> target,
                            from |-> drawPointsStartDbId,
                            short |-> DistSq(drawPointsStartPoint, p) < step * step]
    /\ drawPointsStartPoint' = p
    /\ dbOpen' = TRUE
    /\ UNCHANGED <<mapOffset, junction_points, isPersistentDrawing, pathGroup, pc,
                   turn, nTurns>>

ClickEmpty ==
    \E p \in ClickPoints :
        /\ \A i \in DOMAIN waypointsData : waypointsData[i].pos # p
        /\ Click(p, 0)

ClickWaypoint ==
    \E id \in ShownIds : Click(ShownPos(id), id)

(***************************************************************************)
(* addPoint(position), the add-points tool                                 *)
(***************************************************************************)
addPoint(position) ==
    LET lastPointId == IF Ids = {} THEN 0 ELSE CHOOSE a \in Ids : \A b \in Ids : b <= a
        rosPos == StorePos(position)
        newPointId == seq + 1
    IN  /\ userIns < MaxUserPoints
        /\ lastPointId # 0 => Len(edge_graph) < MaxRows
        /\ waypoints' = InsertWaypoint(waypoints, newPointId, rosPos)
        /\ edge_graph' = IF lastPointId # 0
                         THEN Append(edge_graph, [id1 |-> lastPointId, id2 |-> newPointId])
                         ELSE edge_graph
        /\ seq' = newPointId
        /\ userIns' = userIns + 1
        /\ waypointsData' = RefreshWaypointsFromDB(waypoints')
        /\ last' = [op |-> "addPoint", target |-> newPointId, from |-> lastPointId,
                    short |-> FALSE]

AddPoint ==
    /\ pc = "idle"
    /\ ~isPersistentDrawing
    /\ \E p \in ClickPoints : addPoint(p)
    /\ dbOpen' = TRUE
    /\ UNCHANGED <<mapOffset, junction_points, isPersistentDrawing, isDrawingPoints,
                   drawPointsStartPoint, drawPointsStartDbId, pathGroup, pc, turn,
                   nTurns>>

(***************************************************************************)
(* deleteSelectedPoints with one waypoint selected: DELETE FROM waypoints  *)
(* only; the connection never turns foreign keys on, so the edge rows and  *)
(* junction rows that name the id stay.                                    *)
(***************************************************************************)
deleteSelectedPoints(id) ==
    /\ waypoints' = [k \in Ids \ {id} |-> waypoints[k]]
    /\ waypointsData' = RefreshWaypointsFromDB(waypoints')
    /\ last' = [op |-> "delete", target |-> id, from |-> 0, short |-> FALSE]

DeleteSelectedPoints ==
    /\ pc = "idle"
    /\ dbOpen
    /\ ~isPersistentDrawing
    /\ \E id \in ShownIds : deleteSelectedPoints(id)
    /\ UNCHANGED <<mapOffset, dbOpen, edge_graph, junction_points, seq,
                   isPersistentDrawing, isDrawingPoints, drawPointsStartPoint,
                   drawPointsStartDbId, pathGroup, pc, turn, userIns, nTurns>>

(***************************************************************************)
(* Lane boundary building.                                                 *)
(***************************************************************************)
EdgeKey(a, b) == <<Min(a, b), Max(a, b)>>

\* Array.prototype.find(n => n !== prev): the first such entry, 0 if none
FirstOther(neighbors, prev) ==
    IF \E i \in DOMAIN neighbors : neighbors[i] # prev
    THEN neighbors[CHOOSE i \in DOMAIN neighbors :
                       /\ neighbors[i] # prev
                       /\ \A k \in 1..(i - 1) : neighbors[k] = prev]
    ELSE 0

\* simpleAdj of drawLane: id -> array of neighbour ids, one entry per row end
RECURSIVE PushRows(_, _)
PushRows(adj, rows) ==
    IF rows = <<>> THEN adj
    ELSE LET r == Head(rows)
             a1 == [adj EXCEPT ![r.id1] = Append(@, r.id2)]
             a2 == [a1 EXCEPT ![r.id2] = Append(@, r.id1)]
         IN  PushRows(a2, Tail(rows))

SimpleAdj(ids, rows) == PushRows([i \in ids |-> <<>>], rows)

(***************************************************************************)
(* The walk of findPathsToNearestJunctions from prev into curr.  kept:     *)
(* the walk ended at a node with more than two entries; fuel bounds the    *)
(* while (true) of the code, and a walk that uses it up is reported as     *)
(* diverged.                                                               *)
(***************************************************************************)
\* a walk that keeps the path it has when it stops at a dead end
RECURSIVE WalkKeepingDeadEnds(_, _, _, _, _)
WalkKeepingDeadEnds(adj, prev, curr, pathEdges, fuel) ==
    LET neighbors == adj[curr]
    IN  IF Len(neighbors) > 2 \/ Len(neighbors) = 1
        THEN [kept |-> TRUE, path |-> pathEdges, diverged |-> FALSE]
        ELSE LET next == FirstOther(neighbors, prev)
             IN  IF next = 0
                 THEN [kept |-> FALSE, path |-> pathEdges, diverged |-> FALSE]
                 ELSE IF fuel = 0
                 THEN [kept |-> FALSE, path |-> pathEdges, diverged |-> TRUE]
                 ELSE WalkKeepingDeadEnds(adj, curr, next,
                                          Append(pathEdges, EdgeKey(curr, next)), fuel - 1)

\* a walk that does not stop on a node of degree > 2
RECURSIVE WalkPastJunctions(_, _, _, _, _)
WalkPastJunctions(adj, prev, curr, pathEdges, fuel) ==
    LET neighbors == adj[curr]
    IN  IF Len(neighbors) = 1
        THEN [kept |-> FALSE, path |-> pathEdges, diverged |-> FALSE]
        ELSE LET next == FirstOther(neighbors, prev)
             IN  IF next = 0
                 THEN [kept |-> FALSE, path |-> pathEdges, diverged |-> FALSE]
                 ELSE IF fuel = 0
                 THEN [kept |-> FALSE, path |-> pathEdges, diverged |-> TRUE]
                 ELSE WalkPastJunctions(adj, curr, next,
                                        Append(pathEdges, EdgeKey(curr, next)), fuel - 1)

RECURSIVE WalkToJunction(_, _, _, _, _)
WalkToJunction(adj, prev, curr, pathEdges, fuel) ==
    LET neighbors == adj[curr]
    IN  IF Len(neighbors) > 2
        THEN [kept |-> TRUE, path |-> pathEdges, diverged |-> FALSE]
        ELSE IF Len(neighbors) = 1
        THEN [kept |-> FALSE, path |-> pathEdges, diverged |-> FALSE]
        ELSE LET next == FirstOther(neighbors, prev)
             IN  IF next = 0
                 THEN [kept |-> FALSE, path |-> pathEdges, diverged |-> FALSE]
                 ELSE IF fuel = 0
                 THEN [kept |-> FALSE, path |-> pathEdges, diverged |-> TRUE]
                 ELSE WalkToJunction(adj, curr, next,
                                     Append(pathEdges, EdgeKey(curr, next)), fuel - 1)

\* the loop's state is (prev, curr): a walk of more steps than there are
\* such pairs repeats one and never ends
WalkFuel(adj) == Cardinality(DOMAIN adj) * Cardinality(DOMAIN adj) + 1

RECURSIVE PathsFrom(_, _, _)
PathsFrom(adj, junctionId, startNeighbors) ==
    IF startNeighbors = <<>> THEN <<>>
    ELSE LET w == WalkToJunction(adj, junctionId, Head(startNeighbors),
                                 <<EdgeKey(junctionId, Head(startNeighbors))>>,
                                 WalkFuel(adj))
         IN  (IF w.kept THEN <<w.path>> ELSE <<>>)
                 \o PathsFrom(adj, junctionId, Tail(startNeighbors))

findPathsToNearestJunctions(junctionId, adj) ==
    IF junctionId \notin DOMAIN adj \/ Len(adj[junctionId]) <= 2
    THEN <<>>
    ELSE PathsFrom(adj, junctionId, adj[junctionId])

\* the keys of the edges that touch a junction
EdgesIncidentToJunctions(adj) ==
    UNION {{EdgeKey(j, adj[j][i]) : i \in DOMAIN adj[j]}
              : j \in {k \in DOMAIN adj : Len(adj[k]) > 2}}

\* edgesToSkip of drawLane
\* some walk of findPathsToNearestJunctions from a junction never leaves
\* its while (true) loop
WalksDiverge(adj) ==
    \E j \in {k \in DOMAIN adj : Len(adj[k]) > 2} :
        \E i \in DOMAIN adj[j] :
            WalkToJunction(adj, j, adj[j][i], <<EdgeKey(j, adj[j][i])>>,
                           WalkFuel(adj)).diverged

EdgesToSkip(adj) ==
    UNION {UNION {Range(path) : path \in Range(findPathsToNearestJunctions(j, adj))}
              : j \in {k \in DOMAIN adj : Len(adj[k]) > 2}}

\* (w || 0.5)
HalfWidth(w) == IF w = 0 THEN defaultWidth ELSE w

(***************************************************************************)
(* A boundary vertex is kept in the form the code computes it from:        *)
(* at + normalize(normal) * off.                                           *)
(***************************************************************************)
LaneObjects(i, row, wps) ==
    LET p1 == wps[row.id1]
        p2 == wps[row.id2]
        dir == VSub(ScenePos(p2), ScenePos(p1))
        normal == V(-dir.y, dir.x)
        left1 == [at |-> ScenePos(p1), normal |-> normal, off |-> HalfWidth(p1.width_left)]
        right1 == [at |-> ScenePos(p1), normal |-> normal, off |-> -HalfWidth(p1.width_right)]
        left2 == [at |-> ScenePos(p2), normal |-> normal, off |-> HalfWidth(p2.width_left)]
        right2 == [at |-> ScenePos(p2), normal |-> normal, off |-> -HalfWidth(p2.width_right)]
    IN  << [kind |-> "mesh", row |-> i, verts |-> <<left1, right1, left2, right2>>,
            index |-> <<0, 1, 2, 2, 1, 3>>],
           [kind |-> "line", row |-> i, verts |-> <<left1, left2>>, index |-> <<>>],
           [kind |-> "line", row |-> i, verts |-> <<right1, right2>>, index |-> <<>>] >>

RECURSIVE DrawEdges(_, _, _, _)
DrawEdges(i, rows, skip, wps) ==
    IF i > Len(rows) THEN <<>>
    ELSE (IF EdgeKey(rows[i].id1, rows[i].id2) \in skip
          THEN <<>>
          ELSE LaneObjects(i, rows[i], wps))
             \o DrawEdges(i + 1, rows, skip, wps)

\* an endpoint id without a waypoints row: simpleAdj.get(id) is undefined
Dangling(wps, rows) ==
    \E i \in DOMAIN rows : rows[i].id1 \notin DOMAIN wps \/ rows[i].id2 \notin DOMAIN wps

(***************************************************************************)
(* drawLane(): status "few" is the return on fewer than two waypoints,     *)
(* "threw" the TypeError of simpleAdj.get(id).push on a dangling row.      *)
(***************************************************************************)
drawLane(wps, rows) ==
    IF Cardinality(DOMAIN wps) < 2
    THEN [status |-> "few", children |-> <<>>]
    ELSE IF Dangling(wps, rows)
    THEN [status |-> "threw", children |-> <<>>]
    ELSE [status |-> "done",
          children |-> DrawEdges(1, rows, EdgesToSkip(SimpleAdj(DOMAIN wps, rows)), wps)]

\* vehicle-select values of generateLane, total width
LaneWidths == {160}

(***************************************************************************)
(* generateLane(): one width for every waypoint, then drawLane.            *)
(***************************************************************************)
GenerateLane ==
    /\ pc = "idle"
    /\ dbOpen
    /\ \E totalWidth \in LaneWidths :
          /\ waypoints' = [k \in Ids |->
                 [waypoints[k] EXCEPT !.width_left = totalWidth \div 2,
                                      !.width_right = totalWidth \div 2]]
          /\ pathGroup' = drawLane(waypoints', edge_graph)
    /\ last' = [op |-> "generateLane", target |-> 0, from |-> 0, short |-> FALSE]
    /\ UNCHANGED <<mapOffset, dbOpen, edge_graph, junction_points, seq, waypointsData,
                   isPersistentDrawing, isDrawingPoints, drawPointsStartPoint,
                   drawPointsStartDbId, pc, turn, userIns, nTurns>>

\* values of the lane width inputs, and the saved files the widths are
\* edited on
LaneEditWidths == {0, 24}

(***************************************************************************)
(* applyAndRegenerateLaneWidth(side): the two selected waypoints, sorted   *)
(* by index, give the id range [startDbId, endDbId) whose width column is  *)
(* set; then drawLane.                                                     *)
(***************************************************************************)
SetWidth(row, side, width) ==
    IF side = "left" THEN [row EXCEPT !.width_left = width]
    ELSE [row EXCEPT !.width_right = width]

ApplyAndRegenerateLaneWidth ==
    /\ pc = "idle"
    /\ dbOpen
    /\ \E side \in {"left", "right"}, width \in LaneEditWidths :
       \E a \in DOMAIN waypointsData, b \in DOMAIN waypointsData :
          /\ a < b
          /\ LET startDbId == waypointsData[a].id
                 endDbId == waypointsData[b].id
             IN  waypoints' = [k \in Ids |->
                     IF k >= startDbId /\ k < endDbId
                     THEN SetWidth(waypoints[k], side, width)
                     ELSE waypoints[k]]
          /\ pathGroup' = drawLane(waypoints', edge_graph)
    /\ last' = [op |-> "laneWidth", target |-> 0, from |-> 0, short |-> FALSE]
    /\ UNCHANGED <<mapOffset, dbOpen, edge_graph, junction_points, seq, waypointsData,
                   isPersistentDrawing, isDrawingPoints, drawPointsStartPoint,
                   drawPointsStartDbId, pc, turn, userIns, nTurns>>

(***************************************************************************)
(* Turn geometry.  For branch vectors d1, d2 out of a node,                *)
(*   dot = d1.d2 / (|d1| |d2|)   (0 when a vector is zero: normalize()     *)
(*   leaves the zero vector), and                                          *)
(*   R / tan((PI - acos(dot)) / 2) = R * sqrt((1 - dot) / (1 + dot)).      *)
(* Lengths carry four binary digits below the unit (sixteenths).           *)
(***************************************************************************)
Len16(d) == ISqrt(LenSq(d) * 256)
LL(d1, d2) == Len16(d1) * Len16(d2)

\* dot < -c/1000
DotBelow(d1, d2, c) ==
    LET A == LenSq(d1)
        B == LenSq(d2)
        D == Dot(d1, d2)
    IN  IF A = 0 \/ B = 0 THEN FALSE
        ELSE IF A <= 2000 /\ B <= 2000 /\ A * B <= 2000
        THEN D < 0 /\ D * D * 1000000 > c * c * A * B
        ELSE 256 * D < -(LL(d1, d2) - (LL(d1, d2) \div 1000) * (1000 - c))

\* R / Math.tan(turn_angle / 2), in sixteenths
TangentDist16(d1, d2, R) ==
    IF LenSq(d1) = 0 \/ LenSq(d2) = 0 THEN 16 * R
    ELSE LET num == Max(0, LL(d1, d2) - 256 * Dot(d1, d2))
             den == LL(d1, d2) + 256 * Dot(d1, d2)
             k == num \div 16384 + 1
         IN  (R * ISqrt((65536 * (num \div k)) \div Max(1, den \div k))) \div 16

\* a lerp that stops at p when the trim distance exceeds the branch length
LerpClamped(pj, p, trim16) ==
    LET d == VSub(p, pj)
        t == Min(trim16, Len16(d))
    IN  V(pj.x + RoundDiv(d.x * t, Len16(d)),
          pj.y + RoundDiv(d.y * t, Len16(d)))

\* new THREE.Vector3().lerpVectors(pj, p, trimDist / dist)
Lerp(pj, p, trim16) ==
    LET d == VSub(p, pj)
    IN  V(pj.x + RoundDiv(d.x * trim16, Len16(d)),
          pj.y + RoundDiv(d.y * trim16, Len16(d)))

\* QuadraticBezierCurve3(p0, p1, p2).getPoint(k / n)
BezierPoint(p0, p1, p2, k, n) ==
    V(RoundDiv((n - k) * (n - k) * p0.x + 2 * (n - k) * k * p1.x + k * k * p2.x, n * n),
      RoundDiv((n - k) * (n - k) * p0.y + 2 * (n - k) * k * p1.y + k * k * p2.y, n * n))

\* curve.getPoints(divisions): the divisions + 1 points at t = k / divisions
GetPoints(p0, p1, p2, divisions) ==
    [i \in 1..(divisions + 1) |-> BezierPoint(p0, p1, p2, i - 1, divisions)]

(***************************************************************************)
(* adj of generateturn: Map id -> Set, both iterated in insertion order.   *)
(* keys: the ids of waypointsData; nb[id]: the neighbours as first added.  *)
(***************************************************************************)
SetAdd(s, a) == IF a \in Range(s) THEN s ELSE Append(s, a)

RECURSIVE AddRows(_, _)
AddRows(nb, rows) ==
    IF rows = <<>> THEN nb
    ELSE LET r == Head(rows)
         IN  IF r.id1 \in DOMAIN nb /\ r.id2 \in DOMAIN nb
             THEN LET n1 == [nb EXCEPT ![r.id1] = SetAdd(@, r.id2)]
                      n2 == [n1 EXCEPT ![r.id2] = SetAdd(@, r.id1)]
                  IN  AddRows(n2, Tail(rows))
             ELSE AddRows(nb, Tail(rows))

BuildAdj(wd, rows) ==
    [keys |-> [i \in DOMAIN wd |-> wd[i].id],
     nb |-> AddRows([id \in {wd[i].id : i \in DOMAIN wd} |-> <<>>], rows)]

\* dbIdToWaypointMap: id -> pos
PosMap(wd) ==
    [id \in {wd[i].id : i \in DOMAIN wd} |->
        wd[CHOOSE i \in DOMAIN wd : wd[i].id = id].pos]

\* the ids, in map order, with more than two neighbours
Junctions(adj) ==
    LET Keep(id) == Len(adj.nb[id]) > 2
    IN  SelectSeq(adj.keys, Keep)

\* the ids, in map order, with exactly two neighbours
CornerNodeIds(adj) ==
    LET Keep(id) == Len(adj.nb[id]) = 2
    IN  SelectSeq(adj.keys, Keep)

(***************************************************************************)
(* findClosestNodeOnBranch(startNodeId, prevNodeId, targetPoint, adj, map) *)
(***************************************************************************)
RECURSIVE ClosestWalk(_, _, _, _, _, _, _, _)
ClosestWalk(i, currentNodeId, previousNodeId, bestNodeId, minDistSq, targetPoint, nb, pos) ==
    IF i >= maxBranchSteps THEN bestNodeId
    ELSE LET nextNodeId == FirstOther(nb[currentNodeId], previousNodeId)
         IN  IF nextNodeId = 0 THEN bestNodeId
             ELSE IF DistSq(pos[nextNodeId], targetPoint) < minDistSq
             THEN ClosestWalk(i + 1, nextNodeId, currentNodeId, nextNodeId,
                              DistSq(pos[nextNodeId], targetPoint), targetPoint, nb, pos)
             ELSE bestNodeId

\* a walk that goes on past a node that is not closer
RECURSIVE ClosestWalkOn(_, _, _, _, _, _, _, _)
ClosestWalkOn(i, currentNodeId, previousNodeId, bestNodeId, minDistSq, targetPoint, nb, pos) ==
    IF i >= maxBranchSteps THEN bestNodeId
    ELSE LET nextNodeId == FirstOther(nb[currentNodeId], previousNodeId)
             closer == DistSq(pos[nextNodeId], targetPoint) < minDistSq
         IN  IF nextNodeId = 0 THEN bestNodeId
             ELSE ClosestWalkOn(i + 1, nextNodeId, currentNodeId,
                                IF closer THEN nextNodeId ELSE bestNodeId,
                                IF closer THEN DistSq(pos[nextNodeId], targetPoint)
                                ELSE minDistSq,
                                targetPoint, nb, pos)

findSomeCloserNode(startNodeId, prevNodeId, targetPoint, nb, pos) ==
    ClosestWalkOn(0, startNodeId, prevNodeId, startNodeId,
                  DistSq(pos[startNodeId], targetPoint), targetPoint, nb, pos)

findClosestNodeOnBranch(startNodeId, prevNodeId, targetPoint, nb, pos) ==
    ClosestWalk(0, startNodeId, prevNodeId, startNodeId,
                DistSq(pos[startNodeId], targetPoint), targetPoint, nb, pos)

(***************************************************************************)
(* getIdsBetween(start_id, end_id, adj) and findPathBetween: breadth-first *)
(* search over a queue of paths.  nb maps an id to its neighbour list.     *)
(***************************************************************************)
RECURSIVE PushUnvisited(_, _, _, _)
PushUnvisited(neighbors, visited, path, pushed) ==
    IF neighbors = <<>> THEN [visited |-> visited, pushed |-> pushed]
    ELSE IF Head(neighbors) \in visited
    THEN PushUnvisited(Tail(neighbors), visited, path, pushed)
    ELSE PushUnvisited(Tail(neighbors), visited \cup {Head(neighbors)}, path,
                       Append(pushed, Append(path, Head(neighbors))))

\* a search that takes the newest path first (queue.pop() for queue.shift())
RECURSIVE SearchStack(_, _, _, _)
SearchStack(queue, visited, end_id, nb) ==
    IF queue = <<>> THEN <<>>
    ELSE LET path == Head(queue)
             last_node == path[Len(path)]
         IN  IF last_node = end_id THEN path
             ELSE LET e == PushUnvisited(nb[last_node], visited, path, <<>>)
                  IN  SearchStack(e.pushed \o Tail(queue), e.visited, end_id, nb)

RECURSIVE SearchQueue(_, _, _, _)
SearchQueue(queue, visited, end_id, nb) ==
    IF queue = <<>> THEN <<>>
    ELSE LET path == Head(queue)
             last_node == path[Len(path)]
         IN  IF last_node = end_id THEN path
             ELSE LET e == PushUnvisited(nb[last_node], visited, path, <<>>)
                  IN  SearchQueue(Tail(queue) \o e.pushed, e.visited, end_id, nb)

getIdsBetween(start_id, end_id, nb) ==
    IF start_id = end_id THEN <<start_id>>
    ELSE SearchQueue(<<<<start_id>>>>, {start_id}, end_id, nb)

\* the edge keys of a node path, each key once, in order of first occurrence
RECURSIVE EdgesOnPath(_, _, _)
EdgesOnPath(path, i, keys) ==
    IF i >= Len(path) THEN keys
    ELSE EdgesOnPath(path, i + 1, SetAdd(keys, EdgeKey(path[i], path[i + 1])))

findPathBetween(startNodeId, endNodeId, nb) ==
    EdgesOnPath(SearchQueue(<<<<startNodeId>>>>, {startNodeId}, endNodeId, nb), 1, <<>>)

(***************************************************************************)
(* walkPathForDistance(start_node, away_from_node, target_dist, adj, map). *)
(* Distances in sixteenths.  w holds the locals of the while loop; done:   *)
(* the loop has been left; hung: the walk is back at a (prev, current) it  *)
(* left without having gained distance since, so the loop never ends.      *)
(***************************************************************************)
\* a loop that moves final_id with every node it reaches
WalkStepOvershoot(w, target, nb, pos) ==
    IF w.done THEN w
    ELSE IF ~(w.accumulated < target) THEN [w EXCEPT !.done = TRUE]
    ELSE LET next_id == FirstOther(nb[w.current_id], w.prev_id)
         IN  IF next_id = 0 THEN [w EXCEPT !.done = TRUE]
             ELSE IF <<w.prev_id, w.current_id>> \in w.seen
             THEN [w EXCEPT !.done = TRUE, !.hung = TRUE]
             ELSE LET gain == Len16(VSub(pos[w.current_id], pos[next_id]))
                  IN  [final_id |-> next_id,
                       accumulated |-> w.accumulated + gain,
                       current_id |-> next_id,
                       prev_id |-> w.current_id,
                       seen |-> IF gain = 0
                                THEN w.seen \cup {<<w.prev_id, w.current_id>>}
                                ELSE {},
                       done |-> FALSE, hung |-> FALSE]

WalkStep(w, target, nb, pos) ==
    IF w.done THEN w
    ELSE IF ~(w.accumulated < target) THEN [w EXCEPT !.done = TRUE]
    ELSE LET next_id == FirstOther(nb[w.current_id], w.prev_id)
         IN  IF next_id = 0 THEN [w EXCEPT !.done = TRUE]
             ELSE IF <<w.prev_id, w.current_id>> \in w.seen
             THEN [w EXCEPT !.done = TRUE, !.hung = TRUE]
             ELSE LET gain == Len16(VSub(pos[w.current_id], pos[next_id]))
                      acc == w.accumulated + gain
                  IN  [final_id |-> IF acc < target THEN next_id ELSE w.final_id,
                       accumulated |-> acc,
                       current_id |-> next_id,
                       prev_id |-> w.current_id,
                       seen |-> IF gain = 0
                                THEN w.seen \cup {<<w.prev_id, w.current_id>>}
                                ELSE {},
                       done |-> FALSE, hung |-> FALSE]

\* n iterations of the loop
RECURSIVE WalkSteps(_, _, _, _, _)
WalkSteps(w, n, target, nb, pos) ==
    IF w.done \/ n = 0 THEN w
    ELSE IF n = 1 THEN WalkStep(w, target, nb, pos)
    ELSE WalkSteps(WalkSteps(w, n \div 2, target, nb, pos), n - n \div 2, target, nb, pos)

\* every iteration that gains distance gains at least one unit, and fewer
\* than |adj|^2 + 1 iterations in a row gain none without the walk being back
WalkBound(target, nb) ==
    (target \div 16 + 2) * (Cardinality(DOMAIN nb) * Cardinality(DOMAIN nb) + 2)

\* the returned id, 0 if the loop never ends
walkPathForDistance(start_node, away_from_node, target_dist, nb, pos) ==
    LET w == WalkSteps([final_id |-> start_node, accumulated |-> 0,
                        current_id |-> start_node, prev_id |-> away_from_node,
                        seen |-> {}, done |-> FALSE, hung |-> FALSE],
                       WalkBound(target_dist, nb) + 1, target_dist, nb, pos)
    IN  IF w.hung THEN 0 ELSE w.final_id

(***************************************************************************)
(* calculateCornerUpdates(curr_id, neighbor_ids, R, adj, map): the map of  *)
(* id -> new ROS position, as a sequence of [id, pos] in insertion order;  *)
(* hung: one of the two walks never returns.                               *)
(***************************************************************************)
\* the ids spread evenly on the straight line from p0 to p2
InterpolateLinear(ids, p0, p1, p2) ==
    [j \in 1..Len(ids) |->
        [id |-> ids[j],
         pos |-> StorePos(V(RoundDiv((Len(ids) - j) * p0.x + (j - 1) * p2.x, Len(ids) - 1),
                            RoundDiv((Len(ids) - j) * p0.y + (j - 1) * p2.y, Len(ids) - 1)))]]

InterpolateIds(ids, p0, p1, p2) ==
    [j \in 1..Len(ids) |->
        [id |-> ids[j],
         pos |-> StorePos(BezierPoint(p0, p1, p2, j - 1, Len(ids) - 1))]]

calculateCornerUpdates(curr_id, neighbor_ids, R, nb, pos) ==
    LET id_A == neighbor_ids[1]
        id_B == neighbor_ids[2]
        none == [hung |-> FALSE, updates |-> <<>>]
    IN  IF ~(id_A \in DOMAIN pos /\ curr_id \in DOMAIN pos /\ id_B \in DOMAIN pos)
        THEN none
        ELSE LET v_A == VSub(pos[id_A], pos[curr_id])
                 v_B == VSub(pos[id_B], pos[curr_id])
             IN  IF DotBelow(v_A, v_B, 950)
                 THEN none
                 ELSE LET tangentDist == TangentDist16(v_A, v_B, R)
                          start_id == walkPathForDistance(curr_id, id_A, tangentDist, nb, pos)
                          end_id == IF start_id = 0 THEN 0
                                    ELSE walkPathForDistance(curr_id, id_B, tangentDist, nb, pos)
                      IN  IF start_id = 0 \/ end_id = 0
                          THEN [hung |-> TRUE, updates |-> <<>>]
                          ELSE LET ids == getIdsBetween(start_id, end_id, nb)
                               IN  IF Len(ids) < 2 THEN none
                                   ELSE [hung |-> FALSE,
                                         updates |-> InterpolateIds(ids, pos[start_id],
                                                                    pos[curr_id], pos[end_id])]

(***************************************************************************)
(* Junction pass of generateturn (Part 1).                                 *)
(***************************************************************************)
RECURSIVE PairsOf(_, _, _, _)
PairsOf(junctionId, neighbors, i, j) ==
    IF i > Len(neighbors) THEN <<>>
    ELSE IF j > Len(neighbors) THEN PairsOf(junctionId, neighbors, i + 1, i + 2)
    ELSE <<[junction |-> junctionId, b1 |-> neighbors[i], b2 |-> neighbors[j]]>>
         \o PairsOf(junctionId, neighbors, i, j + 1)

RECURSIVE AllPairs(_, _)
AllPairs(junctions, nb) ==
    IF junctions = <<>> THEN <<>>
    ELSE PairsOf(Head(junctions), nb[Head(junctions)], 1, 2)
         \o AllPairs(Tail(junctions), nb)

\* the tests that make the loop body `continue`
SkipPair(pj, p1, p2, R) ==
    \/ DotBelow(VSub(p1, pj), VSub(p2, pj), 999)
    \/ TangentDist16(VSub(p1, pj), VSub(p2, pj), R) < 16 * minTrim

JunctionRow(junctionId, from, to, entry, exit) ==
    [junction_waypoint_id |-> junctionId, from_waypoint_id |-> from,
     to_waypoint_id |-> to, entry |-> StorePos(entry), exit |-> StorePos(exit)]

\* a temporary id `new_c` is written -(c + 1)
TempId(c) == -(c + 1)

ArcEdges(c0, connectToId1, connectToId2, n) ==
    [k \in 1..(n + 1) |->
        [from |-> IF k = 1 THEN connectToId1 ELSE TempId(c0 + k - 2),
         to |-> IF k = n + 1 THEN connectToId2 ELSE TempId(c0 + k - 1)]]

(***************************************************************************)
(* One iteration of the inner loop.  acc carries junction_points, the      *)
(* pointsToAdd and edgesToAdd lists, and threw: lerpVectors with           *)
(* trimDist / 0 gives NaN coordinates, the junction_points insert binds    *)
(* them as NULL and the NOT NULL constraint makes run() throw.             *)
(***************************************************************************)
ProcessPair(acc, pr, nb, pos, R) ==
    LET pj == pos[pr.junction]
        p1 == pos[pr.b1]
        p2 == pos[pr.b2]
        trim == TangentDist16(VSub(p1, pj), VSub(p2, pj), R)
        startPoint == Lerp(pj, p1, trim)
        endPoint == Lerp(pj, p2, trim)
        connectToId1 == findClosestNodeOnBranch(pr.b1, pr.junction, startPoint, nb, pos)
        connectToId2 == findClosestNodeOnBranch(pr.b2, pr.junction, endPoint, nb, pos)
        arcPoints == GetPoints(startPoint, pj, endPoint, numPointsInArc)
    IN  IF acc.threw THEN acc
        ELSE IF SkipPair(pj, p1, p2, R)
        THEN [acc EXCEPT !.pairs = Append(@, [pair |-> pr, skipped |-> TRUE, trim |-> trim])]
        ELSE IF p1 = pj \/ p2 = pj
        THEN [acc EXCEPT !.threw = TRUE,
                         !.pairs = Append(@, [pair |-> pr, skipped |-> FALSE, trim |-> trim])]
        ELSE [threw |-> FALSE,
              jp |-> acc.jp \o
                     <<JunctionRow(pr.junction, pr.b1, pr.b2, startPoint, endPoint),
                       JunctionRow(pr.junction, pr.b2, pr.b1, endPoint, startPoint)>>,
              points |-> acc.points \o SubSeq(arcPoints, 2, Len(arcPoints) - 1),
              edges |-> acc.edges \o ArcEdges(Len(acc.points), connectToId1, connectToId2,
                                              Len(arcPoints) - 2),
              pairs |-> Append(acc.pairs, [pair |-> pr, skipped |-> FALSE, trim |-> trim])]

RECURSIVE ProcessPairs(_, _, _, _, _)
ProcessPairs(acc, pairs, nb, pos, R) ==
    IF pairs = <<>> THEN acc
    ELSE ProcessPairs(ProcessPair(acc, Head(pairs), nb, pos, R), Tail(pairs), nb, pos, R)

(***************************************************************************)
(* applyGraphModifications(idsToDelete = {}, pointsToAdd, edgesToAdd, map) *)
(* failAt = 0: every statement succeeds and the transaction commits;       *)
(* failAt = k: the k-th INSERT (the points first, then the edges) throws,  *)
(* the catch block runs ROLLBACK.                                          *)
(***************************************************************************)
ResolveId(id, sq) == IF id < 0 THEN sq - id ELSE id

RECURSIVE InsertPoints(_, _, _, _)
InsertPoints(wps, sq, points, n) ==
    IF n = 0 THEN wps
    ELSE InsertPoints(InsertWaypoint(wps, sq + 1, StorePos(Head(points))),
                      sq + 1, Tail(points), n - 1)

InsertEdges(rows, edges, n, sq, known) ==
    LET Resolved(e) == [id1 |-> ResolveId(e.from, sq), id2 |-> ResolveId(e.to, sq)]
        Runs(e) == Resolved(e).id1 \in known /\ Resolved(e).id2 \in known
        first == SubSeq(edges, 1, n)
        run == SelectSeq(first, Runs)
    IN  rows \o [i \in DOMAIN run |-> Resolved(run[i])]

\* the tables as the statements before the k-th have left them
Executed(before, pointsToAdd, edgesToAdd, k, known) ==
    LET np == Min(k, Len(pointsToAdd))
        ne == Max(0, k - Len(pointsToAdd))
    IN  [wps |-> InsertPoints(before.wps, before.seq, pointsToAdd, np),
         rows |-> InsertEdges(before.rows, edgesToAdd, ne, before.seq,
                              known \cup ((before.seq + 1)..(before.seq + np))),
         seq |-> before.seq + np]

\* a catch block without ROLLBACK: what was executed stays
KeepExecuted(before, partial) == partial

\* ROLLBACK: back to the tables at BEGIN TRANSACTION
Rollback(before, partial) == before

\* a junction pass that deletes the junction nodes it rebuilds
JunctionIds(junctions) == Range(junctions)

\* const idsToDelete = new Set(), to which generateturn never adds
IdsToDelete(junctions) == {}

\* DELETE FROM waypoints WHERE id IN (...); DELETE FROM edge_graph WHERE
\* id1 IN (...) OR id2 IN (...)
DeleteIds(tables, ids) ==
    LET Stays(row) == row.id1 \notin ids /\ row.id2 \notin ids
    IN  [wps |-> [id \in DOMAIN tables.wps \ ids |-> tables.wps[id]],
         rows |-> SelectSeq(tables.rows, Stays),
         seq |-> tables.seq]

applyGraphModifications(before, idsToDelete, pointsToAdd, edgesToAdd, known, failAt) ==
    LET total == Len(pointsToAdd) + Len(edgesToAdd)
        deleted == DeleteIds(before, idsToDelete)
    IN  IF idsToDelete = {} /\ pointsToAdd = <<>> THEN before @@ [txn |-> "none"]
        ELSE IF failAt = 0
        THEN Executed(deleted, pointsToAdd, edgesToAdd, total, known) @@ [txn |-> "committed"]
        ELSE Rollback(before, Executed(deleted, pointsToAdd, edgesToAdd, failAt - 1, known))
             @@ [txn |-> "rolledback"]

\* updates written as new rows (INSERT for UPDATE)
RECURSIVE insertWaypointUpdates(_, _)
insertWaypointUpdates(wps, updates) ==
    IF updates = <<>> THEN wps
    ELSE insertWaypointUpdates(
             InsertWaypoint(wps, Cardinality(DOMAIN wps) + 100, Head(updates).pos),
             Tail(updates))

(***************************************************************************)
(* applyWaypointUpdates(updates): UPDATE waypoints SET x, y, z WHERE id    *)
(***************************************************************************)
RECURSIVE applyWaypointUpdates(_, _)
applyWaypointUpdates(wps, updates) ==
    IF updates = <<>> THEN wps
    ELSE LET u == Head(updates)
         IN  applyWaypointUpdates(
                 IF u.id \in DOMAIN wps
                 THEN [wps EXCEPT ![u.id].x = u.pos.x, ![u.id].y = u.pos.y]
                 ELSE wps,
                 Tail(updates))

\* a catch block without ROLLBACK: the UPDATEs that ran stay
KeepPartialUpdates(before, partial) == partial

\* ROLLBACK of a corner's transaction
RollbackUpdates(before, partial) == before

(***************************************************************************)
(* applyWaypointUpdates(updates) as a transaction.  failAt = 0: every      *)
(* UPDATE succeeds and the transaction commits; failAt = k: the k-th       *)
(* UPDATE throws and the catch block runs ROLLBACK.                        *)
(***************************************************************************)
commitWaypointUpdates(wps, updates, failAt) ==
    IF failAt = 0 THEN applyWaypointUpdates(wps, updates)
    ELSE RollbackUpdates(wps, applyWaypointUpdates(wps, SubSeq(updates, 1, failAt - 1)))

(***************************************************************************)
(* loadWaypointsFromFile(file).  The database files a session may open:    *)
(* waypoints at the positions of one of the layouts (ROS frame), and any   *)
(* choice of at most MaxFileRows edge rows among FilePairs, stored with    *)
(* id1 <= id2 in ascending order.                                          *)
(***************************************************************************)
FileLayouts ==
    { <<V(0, 0), V(100, 0), V(0, 100), V(-80, -60), V(-100, 0)>>,
      <<V(0, 0), V(100, 0), V(0, 100), V(0, 0), V(200, 0)>> }

FilePairs(n) == {<<a, b>> : a \in 1..n, b \in 1..n} \cap
                ({<<1, 1>>} \cup {q \in (1..n) \X (1..n) : q[1] < q[2]})

RowsOf(pairs, n) ==
    LET codes == SortedSeq({q[1] * (n + 1) + q[2] : q \in pairs})
    IN  [i \in DOMAIN codes |->
            [id1 |-> codes[i] \div (n + 1), id2 |-> codes[i] % (n + 1)]]

LoadFile(layouts, maxRows, savedJunctionRows) ==
    /\ pc = "idle"
    /\ ~dbOpen
    /\ \E layout \in layouts :
       \E pairs \in SUBSET FilePairs(Len(layout)) :
          /\ Cardinality(pairs) <= maxRows
          /\ waypoints' = [i \in 1..Len(layout) |-> NewRow(layout[i])]
          /\ edge_graph' = RowsOf(pairs, Len(layout))
          /\ seq' = Len(layout)
    /\ junction_points' \in savedJunctionRows
    /\ waypointsData' = RefreshWaypointsFromDB(waypoints')
    /\ dbOpen' = TRUE
    /\ pathGroup' = [status |-> "none", children |-> <<>>]
    /\ last' = [op |-> "load", target |-> 0, from |-> 0, short |-> FALSE]
    /\ UNCHANGED <<mapOffset, isPersistentDrawing, isDrawingPoints,
                   drawPointsStartPoint, drawPointsStartDbId, pc, turn, userIns,
                   nTurns>>

\* a file without junction_points rows
LoadWaypointsFromFile == LoadFile(FileLayouts, MaxFileRows, {<<>>})

\* files saved after an earlier generateturn: junction_points may hold rows
SavedLayouts == {<<V(0, 0), V(100, 0), V(0, 100), V(-80, -60), V(-100, 0)>>}
SavedJunctionRows ==
    { <<>>,
      <<[junction_waypoint_id |-> 1, from_waypoint_id |-> 2, to_waypoint_id |-> 3,
         entry |-> V(5, 5), exit |-> V(7, 7)],
        [junction_waypoint_id |-> 1, from_waypoint_id |-> 3, to_waypoint_id |-> 2,
         entry |-> V(7, 7), exit |-> V(5, 5)]>> }

LoadSavedStore == LoadFile(SavedLayouts, MaxSavedRows, SavedJunctionRows)

\* the files lane widths are edited on
LaneLayouts == {<<V(0, 0), V(100, 0), V(100, 0), V(0, 100)>>}
LoadLaneFile == LoadFile(LaneLayouts, MaxLaneRows, {<<>>})

(***************************************************************************)
(* generateturn().  GenerateTurn is the call up to the start of the corner *)
(* loop: junction_points reset, Part 1, refresh, adjacency and list of     *)
(* nodes to process of Part 2.  CornerStep is one iteration of the corner  *)
(* loop, FinishTurn the final refresh.                                     *)
(***************************************************************************)
TurnRadii == {16, 80}
FailPoints == {1, 12}

\* a call that leaves the rows of earlier calls in the table
KeepJunctionPoints(jp) == jp

\* this.db.run("DELETE FROM junction_points")
ResetJunctionPoints(jp) == <<>>

\* Part 2 run on the adjacency map of Part 1
ReuseAdj(adj1, wd, rows) == adj1

\* Part 2: adj = new Map(), filled from waypointsData and edge_graph
CornerAdj(adj1, wd, rows) == BuildAdj(wd, rows)

\* a corner iteration without refreshWaypointsFromDB
StaleSnapshot(wd, wps) == wd

\* the corner loop's refreshWaypointsFromDB and currentMap
CornerSnapshot(wd, wps) == RefreshWaypointsFromDB(wps)

NodesToProcess(cornerNodeIds) ==
    cornerNodeIds \o SubSeq(cornerNodeIds, 1, (Len(cornerNodeIds) + 1) \div 2)

GenerateTurnCall(maxTurns, maxWaypoints) ==
    /\ pc = "idle"
    /\ dbOpen
    /\ nTurns < maxTurns
    /\ Cardinality(Ids) <= maxWaypoints
    /\ \E R \in TurnRadii, failAt \in {0} \cup FailPoints :
        \E adj \in {BuildAdj(waypointsData, edge_graph)} :
        \E pos \in {PosMap(waypointsData)} :
        \E acc \in {ProcessPairs([threw |-> FALSE, jp |-> <<>>, points |-> <<>>,
                                  edges |-> <<>>, pairs |-> <<>>],
                                 AllPairs(Junctions(adj), adj.nb), adj.nb, pos, R)} :
        \E mod \in {applyGraphModifications(
                        [wps |-> waypoints, rows |-> edge_graph, seq |-> seq],
                        IdsToDelete(Junctions(adj)),
                        acc.points, acc.edges, DOMAIN pos, failAt)} :
        \E adj2 \in {CornerAdj(adj, RefreshWaypointsFromDB(mod.wps), mod.rows)} :
            /\ failAt <= Len(acc.points) + Len(acc.edges)
            /\ acc.threw => failAt = 0
            /\ junction_points' = ResetJunctionPoints(junction_points) \o acc.jp
            /\ IF acc.threw
               THEN /\ UNCHANGED <<waypoints, edge_graph, seq, waypointsData>>
                    /\ pc' = "idle"
                    /\ turn' = [status |-> "threw", R |-> R, pairs |-> acc.pairs,
                                txn |-> "none", failAt |-> 0, nb |-> adj.nb,
                                queue |-> <<>>, corner |-> 0, moved |-> {},
                                ids |-> <<>>, step |-> 0, failed |-> {},
                                jpBefore |-> Len(junction_points),
                                movedBefore |-> {}, seqBefore |-> seq]
               ELSE /\ waypoints' = mod.wps
                    /\ edge_graph' = mod.rows
                    /\ seq' = mod.seq
                    /\ waypointsData' = RefreshWaypointsFromDB(mod.wps)
                    /\ pc' = "corners"
                    /\ turn' = [status |-> "corners", R |-> R, pairs |-> acc.pairs,
                                txn |-> mod.txn, failAt |-> failAt, nb |-> adj2.nb,
                                queue |-> NodesToProcess(CornerNodeIds(adj2)),
                                corner |-> 0, moved |-> {},
                                ids |-> <<>>, step |-> 0, failed |-> {},
                                jpBefore |-> Len(junction_points),
                                movedBefore |-> {}, seqBefore |-> seq]
    /\ nTurns' = nTurns + 1
    /\ last' = [op |-> "generateturn", target |-> 0, from |-> 0, short |-> FALSE]
    /\ UNCHANGED <<mapOffset, dbOpen, isPersistentDrawing, isDrawingPoints,
                   drawPointsStartPoint, drawPointsStartDbId, pathGroup, userIns>>

GenerateTurn == GenerateTurnCall(MaxTurns, MaxTurnWaypoints)

\* generateturn called again on the store an earlier call has left
GenerateTurnAgain == GenerateTurnCall(MaxRepeatTurns, MaxRepeatWaypoints)

\* one iteration of the corner loop; failAt as in commitWaypointUpdates
CornerIteration(failAt) ==
    /\ pc = "corners"
    /\ turn.queue # <<>>
    /\ \E wd \in {CornerSnapshot(waypointsData, waypoints)} :
       \E c \in {calculateCornerUpdates(Head(turn.queue), turn.nb[Head(turn.queue)],
                                        turn.R, turn.nb, PosMap(wd))} :
       LET cornerId == Head(turn.queue)
       IN  /\ failAt <= Len(c.updates)
           /\ waypointsData' = wd
           /\ IF c.hung
              THEN /\ failAt = 0
                   /\ pc' = "hung"
                   /\ waypoints' = waypoints
                   /\ turn' = [turn EXCEPT !.status = "hung", !.corner = cornerId,
                                           !.moved = {}, !.ids = <<>>]
              ELSE /\ pc' = pc
                   /\ waypoints' = commitWaypointUpdates(waypoints, c.updates, failAt)
                   /\ turn' = [turn EXCEPT
                          !.queue = Tail(@), !.corner = cornerId,
                          !.moved = {c.updates[i].id : i \in DOMAIN c.updates},
                          !.ids = [i \in DOMAIN c.updates |-> c.updates[i].id],
                          !.step = @ + 1,
                          !.movedBefore = IF turn.step \in turn.failed THEN @
                                          ELSE @ \cup turn.moved,
                          !.failed = IF failAt = 0 THEN @ ELSE @ \cup {turn.step + 1}]
    /\ UNCHANGED <<mapOffset, dbOpen, edge_graph, junction_points, seq,
                   isPersistentDrawing, isDrawingPoints, drawPointsStartPoint,
                   drawPointsStartDbId, pathGroup, last, userIns, nTurns>>

CornerStep == CornerIteration(0)

\* the iterations in which the store may fail, and the statement that fails
CornerFailSteps == {2}
CornerFailPoints == {3}

CornerStepFails ==
    /\ turn.step + 1 \in CornerFailSteps
    /\ \E failAt \in CornerFailPoints : CornerIteration(failAt)

FinishTurn ==
    /\ pc = "corners"
    /\ turn.queue = <<>>
    /\ waypointsData' = RefreshWaypointsFromDB(waypoints)
    /\ pc' = "idle"
    /\ turn' = [turn EXCEPT !.status = "done"]
    /\ UNCHANGED <<mapOffset, dbOpen, waypoints, edge_graph, junction_points, seq,
                   isPersistentDrawing, isDrawingPoints, drawPointsStartPoint,
                   drawPointsStartDbId, pathGroup, last, userIns, nTurns>>

(***************************************************************************)
(* The path queries on their own: pRows are the edge rows the adjacency    *)
(* maps are built from, over the ids 1..NumNodes.                          *)
(***************************************************************************)
PathNodes == 1..NumNodes
PathPairs == {q \in PathNodes \X PathNodes : q[1] <= q[2]}
Reverse(q) == [i \in DOMAIN q |-> q[Len(q) + 1 - i]]

\* at most MaxPathRows distinct rows, in ascending or in descending order
PathRowSeqs ==
    LET asc == {RowsOf(pairs, NumNodes) :
                   pairs \in {ps \in SUBSET PathPairs : Cardinality(ps) <= MaxPathRows}}
    IN  asc \cup {Reverse(rows) : rows \in asc}

SetAdj(rows) == AddRows([id \in PathNodes |-> <<>>], rows)

GetIdsBetween ==
    /\ pOut.fn = "none"
    /\ \E s \in PathNodes, e \in PathNodes :
          pOut' = [fn |-> "getIdsBetween", start |-> s, end |-> e,
                   result |-> getIdsBetween(s, e, SetAdj(pRows))]
    /\ UNCHANGED <<pRows, storeVars>>

FindPathBetween ==
    /\ pOut.fn = "none"
    /\ \E s \in PathNodes, e \in PathNodes :
          pOut' = [fn |-> "findPathBetween", start |-> s, end |-> e,
                   result |-> findPathBetween(s, e, SimpleAdj(PathNodes, pRows))]
    /\ UNCHANGED <<pRows, storeVars>>

FindPathsToNearestJunctions ==
    /\ pOut.fn = "none"
    /\ \E j \in PathNodes :
          pOut' = [fn |-> "findPathsToNearestJunctions", start |-> j, end |-> j,
                   result |-> findPathsToNearestJunctions(j, SimpleAdj(PathNodes, pRows))]
    /\ UNCHANGED <<pRows, storeVars>>

(***************************************************************************)
(* walkPathForDistance on its own: from a node of the rows pRows, away     *)
(* from one of its neighbours; the positions of the ids and the target     *)
(* distances in sixteenths.                                                *)
(***************************************************************************)
WalkPos ==
    [id \in PathNodes |->
        CASE id = 1 -> V(0, 0)
          [] id = 2 -> V(30, 0)
          [] id = 3 -> V(30, 40)
          [] id = 4 -> V(30, 40)
          [] OTHER -> V(-60, 0)]
WalkDists == {480, 1120, 4000}

WalkPathForDistance ==
    /\ pOut.fn = "none"
    /\ \E nb \in {SetAdj(pRows)} :
       \E s \in PathNodes, d \in WalkDists :
       \E away \in Range(nb[s]) :
          pOut' = [fn |-> "walkPathForDistance", start |-> s, end |-> away, dist |-> d,
                   result |-> walkPathForDistance(s, away, d, nb, WalkPos)]
    /\ UNCHANGED <<pRows, storeVars>>

\* the same walk on a file in which the waypoints 3, 4 and 5 lie on one point
CoincidentPos ==
    [id \in PathNodes |-> IF id >= 3 THEN V(30, 40) ELSE WalkPos[id]]

WalkCoincidentPoints ==
    /\ pOut.fn = "none"
    /\ \E nb \in {SetAdj(pRows)} :
       \E s \in PathNodes, d \in WalkDists :
       \E away \in Range(nb[s]) :
          pOut' = [fn |-> "walkPathForDistance", start |-> s, end |-> away, dist |-> d,
                   result |-> walkPathForDistance(s, away, d, nb, CoincidentPos)]
    /\ UNCHANGED <<pRows, storeVars>>

(***************************************************************************)
(* findClosestNodeOnBranch on its own: on a small graph over the ids of    *)
(* PathNodes, or on the chain of the ids after them up to ChainEnd, which  *)
(* lie on a line.                                                          *)
(***************************************************************************)
BranchNodes == 1..ChainEnd
BranchPos ==
    [id \in BranchNodes |->
        IF id \in PathNodes THEN WalkPos[id] ELSE V(10 * id, 100)]
BranchTargets == {V(30, 30), V(-60, 0), V(200, 100), V(400, 100)}

ChainRows == [i \in 1..(ChainEnd - NumNodes - 1) |-> [id1 |-> NumNodes + i, id2 |-> NumNodes + i + 1]]

BranchRowSeqs ==
    {RowsOf(pairs, NumNodes) :
        pairs \in {ps \in SUBSET PathPairs : Cardinality(ps) <= MaxBranchRows}}
      \cup {ChainRows, Reverse(ChainRows)}

BranchAdj(rows) == AddRows([id \in BranchNodes |-> <<>>], rows)

FindClosestNodeOnBranch ==
    /\ pOut.fn = "none"
    /\ \E nb \in {BranchAdj(pRows)} :
       \E s \in BranchNodes, target \in BranchTargets :
       \E prev \in Range(nb[s]) :
          pOut' = [fn |-> "findClosestNodeOnBranch", start |-> s, end |-> prev,
                   target |-> target,
                   result |-> findClosestNodeOnBranch(s, prev, target, nb, BranchPos)]
    /\ UNCHANGED <<pRows, storeVars>>

(***************************************************************************)
(* Step 2 of drawLane on its own: the skip set of the rows pRows.  The     *)
(* edge_graph table has no uniqueness constraint, so a row may be repeated *)
(* and may join an id to itself.                                           *)
(***************************************************************************)
PairCodes == {q[1] * (NumNodes + 1) + q[2] : q \in PathPairs}

\* the non-decreasing sequences of at most k pair codes >= lo
RECURSIVE CodeSeqs(_, _)
CodeSeqs(k, lo) ==
    IF k = 0 THEN {<<>>}
    ELSE {<<>>} \cup UNION {{<<c>> \o rest : rest \in CodeSeqs(k - 1, c)}
                               : c \in {d \in PairCodes : d >= lo}}

SkipRowSeqs ==
    LET asc == {[i \in DOMAIN codes |->
                    [id1 |-> codes[i] \div (NumNodes + 1), id2 |-> codes[i] % (NumNodes + 1)]]
                   : codes \in CodeSeqs(MaxSkipRows, 0)}
    IN  asc \cup {Reverse(rows) : rows \in asc}

BuildEdgesToSkip ==
    /\ pOut.fn = "none"
    /\ pOut' = [fn |-> "edgesToSkip", start |-> 0, end |-> 0,
                diverged |-> WalksDiverge(SimpleAdj(PathNodes, pRows)),
                result |-> EdgesToSkip(SimpleAdj(PathNodes, pRows))]
    /\ UNCHANGED <<pRows, storeVars>>

(***************************************************************************)
(* Edits of positions: a waypoint dragged with the pointer (onPointerMove  *)
(* and onPointerUp) and linearInterpolateSelected.  Both move the points   *)
(* of the geometry buffer and write the new positions to the waypoints     *)
(* table with batchUpdateDbPositions; neither reads the table back.  The   *)
(* buffer is written together with the table, so the position of the point *)
(* at an index is the scene position of its row.                           *)
(***************************************************************************)
DragLayouts == {<<V(0, 0), V(100, 0), V(0, 100), V(-80, -60)>>}
DragTargets == {V(40, 40)}

LoadDragFile == LoadFile(DragLayouts, MaxDragRows, {<<>>})
LoadRepeatFile == LoadFile(DragLayouts, MaxRepeatRows, {<<>>})

\* positions.getX/getY(index) of the waypoints object
GeometryPos(index) == ScenePos(waypoints[waypointsData[index].id])

\* UPDATE waypoints SET x, y, z WHERE id = indexToDbId[index], for each index
batchUpdateDbPositions(wps, indicesToUpdate, newPositions) ==
    applyWaypointUpdates(wps,
        [i \in DOMAIN indicesToUpdate |->
            [id |-> waypointsData[indicesToUpdate[i]].id,
             pos |-> StorePos(newPositions[i])]])

\* the ids whose row has been rewritten since refreshWaypointsFromDB
StaleIds ==
    {waypointsData[i].id : i \in {k \in DOMAIN waypointsData :
        /\ waypointsData[k].id \in Ids
        /\ GeometryPos(k) # waypointsData[k].pos}}

\* the selected waypoint is dragged to a pointer position and released
DragSelectedPoints ==
    /\ pc = "idle"
    /\ dbOpen
    /\ Cardinality(Ids) <= MaxTurnWaypoints
    /\ Cardinality(StaleIds) < MaxStaleIds
    /\ \E index \in DOMAIN waypointsData, target \in DragTargets :
          /\ waypointsData[index].id \in Ids
          /\ \E delta \in {VSub(target, GeometryPos(index))} :
                waypoints' = batchUpdateDbPositions(waypoints, <<index>>,
                                 <<VAdd(GeometryPos(index), delta)>>)
    /\ last' = [op |-> "drag", target |-> 0, from |-> 0, short |-> FALSE]
    /\ UNCHANGED <<mapOffset, dbOpen, edge_graph, junction_points, seq,
                   waypointsData, isPersistentDrawing, isDrawingPoints,
                   drawPointsStartPoint, drawPointsStartDbId, pathGroup, pc, turn,
                   userIns, nTurns>>

\* pStart.clone().lerp(pEnd, k / n)
LerpByIndex(pStart, pEnd, k, n) ==
    V(pStart.x + RoundDiv((pEnd.x - pStart.x) * k, n),
      pStart.y + RoundDiv((pEnd.y - pStart.y) * k, n))

LinearInterpolateSelected ==
    /\ pc = "idle"
    /\ dbOpen
    /\ Cardinality(Ids) <= MaxTurnWaypoints
    /\ Cardinality(StaleIds) < MaxStaleIds
    /\ \E selectedIndices \in SUBSET DOMAIN waypointsData :
       \E indices \in {SortedSeq(selectedIndices)} :
          /\ Len(indices) >= 3
          /\ \A i \in DOMAIN indices : waypointsData[indices[i]].id \in Ids
          /\ LET startIdx == indices[1]
                 endIdx == indices[Len(indices)]
                 intermediaryIndices == SubSeq(indices, 2, Len(indices) - 1)
                 newPositions ==
                     [i \in DOMAIN intermediaryIndices |->
                         LerpByIndex(GeometryPos(startIdx), GeometryPos(endIdx),
                                     intermediaryIndices[i] - startIdx,
                                     endIdx - startIdx)]
             IN  waypoints' = batchUpdateDbPositions(waypoints, intermediaryIndices,
                                                     newPositions)
    /\ last' = [op |-> "interpolate", target |-> 0, from |-> 0, short |-> FALSE]
    /\ UNCHANGED <<mapOffset, dbOpen, edge_graph, junction_points, seq,
                   waypointsData, isPersistentDrawing, isDrawingPoints,
                   drawPointsStartPoint, drawPointsStartDbId, pathGroup, pc, turn,
                   userIns, nTurns>>

(***************************************************************************)
(* The application after construction: no database, nothing drawn.         *)
(***************************************************************************)
NoCall == [op |-> "none", target |-> 0, from |-> 0, short |-> FALSE]
NoTurn == [status |-> "none", R |-> 0, pairs |-> <<>>, txn |-> "none", failAt |-> 0,
           nb |-> <<>>, queue |-> <<>>, corner |-> 0, moved |-> {},
           ids |-> <<>>, step |-> 0, failed |-> {}, jpBefore |-> 0,
           movedBefore |-> {}, seqBefore |-> 0]

StoreInit ==
    /\ mapOffset \in MapOffsets
    /\ dbOpen = FALSE
    /\ waypoints = <<>>
    /\ edge_graph = <<>>
    /\ junction_points = <<>>
    /\ seq = 0
    /\ waypointsData = <<>>
    /\ isPersistentDrawing = FALSE
    /\ isDrawingPoints = FALSE
    /\ drawPointsStartPoint = V(0, 0)
    /\ drawPointsStartDbId = 0
    /\ pathGroup = [status |-> "none", children |-> <<>>]
    /\ pc = "idle"
    /\ turn = NoTurn
    /\ last = NoCall
    /\ userIns = 0
    /\ nTurns = 0

Init ==
    /\ StoreInit
    /\ pRows = <<>>
    /\ pOut = [fn |-> "none"]

PathInit ==
    /\ StoreInit
    /\ pRows \in PathRowSeqs
    /\ pOut = [fn |-> "none"]

BranchInit ==
    /\ StoreInit
    /\ pRows \in BranchRowSeqs
    /\ pOut = [fn |-> "none"]

SkipInit ==
    /\ StoreInit
    /\ pRows \in SkipRowSeqs
    /\ pOut = [fn |-> "none"]

\* a drawing session on a new database
Next ==
    \/ SelectDrawTool /\ UNCHANGED pathVars
    \/ exitPersistentDrawing /\ UNCHANGED pathVars
    \/ ClickEmpty /\ UNCHANGED pathVars
    \/ ClickWaypoint /\ UNCHANGED pathVars
    \/ AddPoint /\ UNCHANGED pathVars
    \/ DeleteSelectedPoints /\ UNCHANGED pathVars

Spec == Init /\ [][Next]_vars

\* turn generation on a loaded database
NextTurn ==
    \/ LoadWaypointsFromFile /\ UNCHANGED pathVars
    \/ GenerateTurn /\ UNCHANGED pathVars
    \/ CornerStep /\ UNCHANGED pathVars
    \/ FinishTurn /\ UNCHANGED pathVars

SpecTurn == Init /\ [][NextTurn]_vars

\* turn generation on a saved store, with a store that may fail in the
\* corner pass
NextFault ==
    \/ LoadSavedStore /\ UNCHANGED pathVars
    \/ GenerateTurn /\ UNCHANGED pathVars
    \/ CornerStep /\ UNCHANGED pathVars
    \/ CornerStepFails /\ UNCHANGED pathVars
    \/ FinishTurn /\ UNCHANGED pathVars

SpecFault == Init /\ [][NextFault]_vars

\* lane generation on a loaded database
NextLane ==
    \/ LoadWaypointsFromFile /\ UNCHANGED pathVars
    \/ DeleteSelectedPoints /\ UNCHANGED pathVars
    \/ GenerateLane /\ UNCHANGED pathVars

SpecLane == Init /\ [][NextLane]_vars

\* editing of lane widths on a loaded database
NextWidth ==
    \/ LoadLaneFile /\ UNCHANGED pathVars
    \/ ApplyAndRegenerateLaneWidth /\ UNCHANGED pathVars

SpecWidth == Init /\ [][NextWidth]_vars

\* turn generation after edits of positions on a loaded database
NextDrag ==
    \/ LoadDragFile /\ UNCHANGED pathVars
    \/ DragSelectedPoints /\ UNCHANGED pathVars
    \/ LinearInterpolateSelected /\ UNCHANGED pathVars
    \/ GenerateTurn /\ UNCHANGED pathVars
    \/ CornerStep /\ UNCHANGED pathVars
    \/ FinishTurn /\ UNCHANGED pathVars

\* walks along waypoints that share a position
NextLoop == WalkCoincidentPoints

SpecLoop == PathInit /\ [][NextLoop]_vars

SpecDrag == Init /\ [][NextDrag]_vars

\* generateturn repeated on a loaded database
NextRepeat ==
    \/ LoadRepeatFile /\ UNCHANGED pathVars
    \/ GenerateTurnAgain /\ UNCHANGED pathVars
    \/ CornerStep /\ UNCHANGED pathVars
    \/ FinishTurn /\ UNCHANGED pathVars

SpecRepeat == Init /\ [][NextRepeat]_vars

NextPath ==
    \/ GetIdsBetween
    \/ FindPathBetween
    \/ FindPathsToNearestJunctions

SpecPath == PathInit /\ [][NextPath]_vars

NextSkip == BuildEdgesToSkip

NextWalk == WalkPathForDistance

NextBranch == FindClosestNodeOnBranch

SpecBranch == BranchInit /\ [][NextBranch]_vars

SpecWalk == PathInit /\ [][NextWalk]_vars

SpecSkip == SkipInit /\ [][NextSkip]_vars

(***************************************************************************)
(* Properties of the path queries.                                         *)
(***************************************************************************)
PathEdgeSet ==
    UNION {{<<pRows[i].id1, pRows[i].id2>>, <<pRows[i].id2, pRows[i].id1>>} : i \in DOMAIN pRows}

\* the ids at most k edges away from s
RECURSIVE WithinHops(_, _)
WithinHops(s, k) ==
    IF k = 0 THEN {s}
    ELSE LET W == WithinHops(s, k - 1)
         IN  W \cup {b \in PathNodes : \E a \in W : <<a, b>> \in PathEdgeSet}

\* the least number of edges from s to e, -1 if no path joins them
HopDistance(s, e) ==
    IF e \notin WithinHops(s, NumNodes) THEN -1
    ELSE CHOOSE k \in 0..NumNodes :
             /\ e \in WithinHops(s, k)
             /\ \A j \in 0..(k - 1) : e \notin WithinHops(s, j)

\* C1: getIdsBetween(start, end, adj) returns [start] when start = end, the
\* empty list when no path joins the two ids, and otherwise a list that
\* starts with start, ends with end, joins consecutive ids by edges of adj
\* and has as few edges as any path between the two; findPathBetween
\* returns the edge keys of such a path.
C1_ShortestPath ==
    /\ pOut.fn = "getIdsBetween" =>
          LET path == pOut.result
              d == HopDistance(pOut.start, pOut.end)
          IN  IF pOut.start = pOut.end THEN path = <<pOut.start>>
              ELSE IF d = -1 THEN path = <<>>
              ELSE /\ Len(path) = d + 1
                   /\ path[1] = pOut.start
                   /\ path[Len(path)] = pOut.end
                   /\ \A i \in 1..(Len(path) - 1) : <<path[i], path[i + 1]>> \in PathEdgeSet
    /\ pOut.fn = "findPathBetween" =>
          LET keys == pOut.result
              d == HopDistance(pOut.start, pOut.end)
          IN  /\ Len(keys) = IF d = -1 THEN 0 ELSE d
              /\ \A i \in DOMAIN keys : <<keys[i][1], keys[i][2]>> \in PathEdgeSet

\* a two-edge answer although the first neighbour of start opens a
\* three-edge route to end
C1_Witness ==
    /\ pOut.fn = "getIdsBetween"
    /\ Len(pOut.result) = 3
    /\ LET first == SetAdj(pRows)[pOut.start][1]
       IN  /\ first \notin Range(pOut.result)
           /\ \E b \in PathNodes \ Range(pOut.result) :
                 /\ b # first
                 /\ <<first, b>> \in PathEdgeSet
                 /\ <<b, pOut.end>> \in PathEdgeSet

\* the number of row ends at node n
RowEnds(n) ==
    Cardinality({i \in DOMAIN pRows : pRows[i].id1 = n})
        + Cardinality({i \in DOMAIN pRows : pRows[i].id2 = n})

\* the node a path of edge keys has reached after its first i keys
RECURSIVE NodeAfter(_, _, _)
NodeAfter(path, from, i) ==
    IF i = 0 THEN from
    ELSE LET n == NodeAfter(path, from, i - 1)
         IN  IF path[i][1] = n THEN path[i][2] ELSE path[i][1]

\* C5: every path returned by findPathsToNearestJunctions(J, adj) starts at
\* J, follows edges, passes only through nodes of degree 2 and ends at a
\* node of degree > 2, so a walk into a dead end contributes no edge key.
C5_PathsEndAtJunctions ==
    pOut.fn = "findPathsToNearestJunctions" =>
        \A k \in DOMAIN pOut.result :
            LET path == pOut.result[k]
            IN  /\ Len(path) >= 1
                /\ RowEnds(pOut.start) > 2
                /\ \A i \in DOMAIN path :
                      /\ NodeAfter(path, pOut.start, i - 1) \in {path[i][1], path[i][2]}
                      /\ <<path[i][1], path[i][2]>> \in PathEdgeSet
                      /\ i < Len(path) => RowEnds(NodeAfter(path, pOut.start, i)) = 2
                /\ RowEnds(NodeAfter(path, pOut.start, Len(path))) > 2

\* one walk is kept after passing a node of degree 2, another from the same
\* junction ran into a dead end and left no key
C5_Witness ==
    /\ pOut.fn = "findPathsToNearestJunctions"
    /\ \E k \in DOMAIN pOut.result : Len(pOut.result[k]) >= 2
    /\ \E n \in PathNodes :
          /\ n # pOut.start
          /\ <<pOut.start, n>> \in PathEdgeSet
          /\ RowEnds(n) = 1
          /\ \A k \in DOMAIN pOut.result : EdgeKey(pOut.start, n) \notin Range(pOut.result[k])

(***************************************************************************)
(* Properties of generateturn.                                             *)
(***************************************************************************)
\* a step that is a call of generateturn up to the corner loop
TurnCall == pc = "idle" /\ nTurns' = nTurns + 1

\* a step inside the corner pass
CornerPassStep == pc = "corners"

\* C2: if a statement of the junction transaction fails, the junction part
\* of generateturn leaves waypoints and edge_graph exactly as they were
\* before the pass.
C2_FailedPassRolledBack ==
    [][(TurnCall /\ turn'.txn = "rolledback")
          => (waypoints' = waypoints /\ edge_graph' = edge_graph)]_vars

\* the 12th statement of a junction transaction failed, after the
\* statements before it had been executed
C2_Witness ==
    /\ pc = "corners"
    /\ turn.corner = 0
    /\ turn.txn = "rolledback"
    /\ turn.failAt = 12

JunctionRowsFor(jp, J, a, b) ==
    {i \in DOMAIN jp : /\ jp[i].junction_waypoint_id = J
                       /\ jp[i].from_waypoint_id = a
                       /\ jp[i].to_waypoint_id = b}

\* C3: a junction with d neighbours is examined for d(d-1)/2 pairs, and
\* every pair that is not skipped gets exactly two junction_points rows,
\* (J, b1 -> b2, entry, exit) and its mirror; a skipped pair gets none.
C3_TwoRowsPerPair ==
    [][TurnCall =>
        LET adj == BuildAdj(waypointsData, edge_graph)
            pos == PosMap(waypointsData)
            jp == junction_points'
        IN  \A J \in DOMAIN adj.nb :
              Len(adj.nb[J]) > 2 =>
                /\ 2 * Cardinality({i \in DOMAIN turn'.pairs :
                                       turn'.pairs[i].pair.junction = J})
                      = Len(adj.nb[J]) * (Len(adj.nb[J]) - 1)
                /\ \A a \in Range(adj.nb[J]), b \in Range(adj.nb[J]) :
                      a # b =>
                        IF SkipPair(pos[J], pos[a], pos[b], turn'.R)
                        THEN JunctionRowsFor(jp, J, a, b) = {}
                        ELSE /\ Cardinality(JunctionRowsFor(jp, J, a, b)) = 1
                             /\ \A i \in JunctionRowsFor(jp, J, a, b) :
                                \A k \in JunctionRowsFor(jp, J, b, a) :
                                   jp[i].entry = jp[k].exit /\ jp[i].exit = jp[k].entry]_vars

\* C7: a step of the corner pass leaves the set of waypoint ids and the
\* edge_graph rows as they are; only positions change.
C7_CornerPassMovesOnly ==
    [][CornerPassStep
          => (DOMAIN waypoints' = DOMAIN waypoints /\ edge_graph' = edge_graph)]_vars

\* a corner step has rewritten the positions of at least three waypoints
C7_Witness ==
    /\ pc = "corners"
    /\ Cardinality(turn.moved) >= 3
    /\ \E id \in turn.moved : ShownPos(id) # ScenePos(waypoints[id])

Cross(p, q) == p.x * q.y - p.y * q.x

\* e is the point at distance trim16 / 16 from the origin in direction d,
\* up to the rounding of one unit
OnRay(e, d, trim16) ==
    /\ Dot(e, d) > 0
    /\ Cross(e, d) * Cross(e, d) <= LenSq(d)
    /\ Len16(e) - trim16 <= 16
    /\ trim16 - Len16(e) <= 16

\* C9 (amended): every junction_points row belongs to a pair whose trimDist
\* is at least 0.1, and its entry point lies on the ray from J through b1,
\* its exit point on the ray from J through b2, both at distance trimDist
\* from J, whether or not trimDist exceeds the distance from J to b1 or b2.
C9_EntryAtTrimDist ==
    [][TurnCall =>
        \A i \in DOMAIN junction_points' :
            LET r == junction_points'[i]
                pj == ShownPos(r.junction_waypoint_id)
                d1 == VSub(ShownPos(r.from_waypoint_id), pj)
                d2 == VSub(ShownPos(r.to_waypoint_id), pj)
                trim == TangentDist16(d1, d2, turn'.R)
            IN  /\ trim >= 16 * minTrim
                /\ OnRay(VSub(ScenePos(r.entry), pj), d1, trim)
                /\ OnRay(VSub(ScenePos(r.exit), pj), d2, trim)]_vars

\* C9 as stated: every recorded entry point lies on the segment J-b1 and
\* every exit point on the segment J-b2.
C9_EntryOnSegment ==
    [][TurnCall =>
        \A i \in DOMAIN junction_points' :
            LET r == junction_points'[i]
                pj == ShownPos(r.junction_waypoint_id)
            IN  /\ LenSq(VSub(ScenePos(r.entry), pj))
                      <= LenSq(VSub(ShownPos(r.from_waypoint_id), pj))
                /\ LenSq(VSub(ScenePos(r.exit), pj))
                      <= LenSq(VSub(ShownPos(r.to_waypoint_id), pj))]_vars

\* a recorded entry point farther from J than b1 is, right after the
\* junction part
C9_Witness ==
    /\ pc = "corners"
    /\ turn.corner = 0
    /\ \E i \in DOMAIN junction_points :
          LET r == junction_points[i]
              pj == ShownPos(r.junction_waypoint_id)
          IN  LenSq(VSub(ScenePos(r.entry), pj))
                  > LenSq(VSub(ShownPos(r.from_waypoint_id), pj))

(***************************************************************************)
(* Properties of the drawing tools.                                        *)
(***************************************************************************)
\* a step that is a click on an existing waypoint in a running segment
ClickOnWaypoint == last'.op = "click" /\ last'.target # 0 /\ last' # last

JoinsOnly(S, E) ==
    /\ edge_graph' = Append(edge_graph, [id1 |-> S, id2 |-> E])
    /\ waypoints' = waypoints

\* C6 (amended): a click on an existing waypoint E, while the segment
\* starts at waypoint S and the distance from the previous click position
\* (drawPointsStartPoint) to E is below the 0.25 step, inserts exactly one
\* edge_graph row (S, E) and no waypoint row.
C6_ShortClosingClick ==
    [][(ClickOnWaypoint /\ isDrawingPoints
          /\ DistSq(drawPointsStartPoint, ShownPos(last'.target)) < step * step)
          => JoinsOnly(drawPointsStartDbId, last'.target)]_vars

\* C6 as stated: the distance that decides is the one from waypoint S to E.
C6_ShortSegmentFromS ==
    [][(ClickOnWaypoint /\ isDrawingPoints
          /\ DistSq(ShownPos(drawPointsStartDbId), ShownPos(last'.target)) < step * step)
          => JoinsOnly(drawPointsStartDbId, last'.target)]_vars

\* a short closing click has joined two different waypoints
C6_Witness ==
    /\ last.op = "click"
    /\ last.target # 0
    /\ last.short
    /\ last.from # 0
    /\ last.from # last.target
    /\ edge_graph # <<>>
    /\ edge_graph[Len(edge_graph)] = [id1 |-> last.from, id2 |-> last.target]

\* C8: edge_graph holds no row with id1 = id2.
C8_NoSelfLoop ==
    \A i \in DOMAIN edge_graph : edge_graph[i].id1 # edge_graph[i].id2

(***************************************************************************)
(* Properties of lane building.                                            *)
(***************************************************************************)
\* a step that is a call of generateLane
LaneCall == last'.op = "generateLane" /\ last' # last

ValidRow(wps, row) == row.id1 \in DOMAIN wps /\ row.id2 \in DOMAIN wps

\* the skip set of the rows whose endpoints exist
SkipOfValidRows(wps, rows) ==
    LET Valid(row) == ValidRow(wps, row)
    IN  EdgesToSkip(SimpleAdj(DOMAIN wps, SelectSeq(rows, Valid)))

ChildrenOf(children, i, kind) ==
    {k \in DOMAIN children : children[k].row = i /\ children[k].kind = kind}

EmitsQuadAndLines(children, i) ==
    /\ Cardinality(ChildrenOf(children, i, "mesh")) = 1
    /\ \A k \in ChildrenOf(children, i, "mesh") :
          Len(children[k].verts) = 4 /\ children[k].index = <<0, 1, 2, 2, 1, 3>>
    /\ Cardinality(ChildrenOf(children, i, "line")) = 2

EmitsNothing(children, i) ==
    ChildrenOf(children, i, "mesh") \cup ChildrenOf(children, i, "line") = {}

\* C4: drawLane emits one quad (four vertices, triangles (0,1,2), (2,1,3))
\* and two boundary lines for every edge_graph row whose key is not in the
\* skip set, and nothing for a skipped row: E meshes and 2E lines.
C4_QuadAndLinesPerEdge ==
    [][LaneCall =>
        LET skip == SkipOfValidRows(waypoints', edge_graph)
            kept == {i \in DOMAIN edge_graph :
                        EdgeKey(edge_graph[i].id1, edge_graph[i].id2) \notin skip}
            children == pathGroup'.children
        IN  /\ \A i \in kept : EmitsQuadAndLines(children, i)
            /\ \A i \in DOMAIN edge_graph \ kept : EmitsNothing(children, i)
            /\ Len(children) = 3 * Cardinality(kept)]_vars

\* C10: on a store with an edge row naming a missing waypoint, drawLane
\* does not abort, skips that row and still emits quad and lines for every
\* other row that is not in the skip set.
C10_DanglingRowSkipped ==
    [][(LaneCall /\ Dangling(waypoints, edge_graph) /\ Cardinality(DOMAIN waypoints) >= 2) =>
        LET skip == SkipOfValidRows(waypoints', edge_graph)
            children == pathGroup'.children
        IN  /\ pathGroup'.status = "done"
            /\ \A i \in DOMAIN edge_graph :
                  IF ValidRow(waypoints, edge_graph[i])
                     /\ EdgeKey(edge_graph[i].id1, edge_graph[i].id2) \notin skip
                  THEN EmitsQuadAndLines(children, i)
                  ELSE EmitsNothing(children, i)]_vars

(***************************************************************************)
(* Properties of generateturn on a store that may fail.                    *)
(***************************************************************************)
\* a corner iteration whose transaction failed
FailedCornerStep == pc = "corners" /\ turn'.failed # turn.failed

\* the step in which the call returns to its caller
TurnReturns == pc = "corners" /\ pc' = "idle"

\* C11: a failed junction transaction or corner transaction is rolled back,
\* is not run again, and the generateturn call in which it failed does not
\* return to its caller as a call that succeeded.
C11_FailureReported ==
    [][/\ (TurnCall /\ turn'.txn = "rolledback")
             => (waypoints' = waypoints /\ edge_graph' = edge_graph)
       /\ FailedCornerStep
             => (waypoints' = waypoints /\ turn'.queue = Tail(turn.queue))
       /\ TurnReturns
             => ~(turn'.status = "done"
                    /\ (turn.txn = "rolledback" \/ turn.failed # {}))]_vars

\* the pairs of a call's log that were not skipped
Unskipped(pairs) ==
    LET Kept(e) == ~e.skipped
    IN  SelectSeq(pairs, Kept)

RowOfPair(row, J, a, b) ==
    /\ row.junction_waypoint_id = J
    /\ row.from_waypoint_id = a
    /\ row.to_waypoint_id = b

\* C12: a generateturn call that completes leaves in junction_points exactly
\* the rows it inserted, two per pair it did not skip and none when the
\* graph has no junction; rows of earlier calls are gone, and the corner
\* pass does not touch the table.
C12_JunctionPointsRegenerated ==
    [][/\ (TurnCall /\ turn'.status # "threw") =>
             LET kept == Unskipped(turn'.pairs)
                 jp == junction_points'
             IN  /\ Len(jp) = 2 * Len(kept)
                 /\ \A k \in DOMAIN kept :
                       LET pr == kept[k].pair
                       IN  /\ RowOfPair(jp[2 * k - 1], pr.junction, pr.b1, pr.b2)
                           /\ RowOfPair(jp[2 * k], pr.junction, pr.b2, pr.b1)
                           /\ jp[2 * k].entry = jp[2 * k - 1].exit
                           /\ jp[2 * k].exit = jp[2 * k - 1].entry
       /\ (CornerPassStep /\ pc' # "hung") => junction_points' = junction_points]_vars

\* a call on a graph without junctions has completed and has emptied a
\* table that held rows of an earlier call
C12_Witness ==
    /\ turn.status = "done"
    /\ turn.jpBefore > 0
    /\ turn.pairs = <<>>
    /\ junction_points = <<>>

(***************************************************************************)
(* Properties of the lane boundaries.                                      *)
(***************************************************************************)
\* vertex v is the point `at` displaced by `off` along a unit normal of dir
DisplacedBy(v, at, dir, off) ==
    /\ v.at = at
    /\ v.normal # V(0, 0)
    /\ Dot(v.normal, dir) = 0
    /\ v.off = off

\* C13: for every drawn edge with distinct endpoint positions the left
\* boundary point at an endpoint is the endpoint displaced perpendicular to
\* the edge direction by the endpoint's stored width_left, the right one by
\* its stored width_right in the opposite direction, for every stored
\* width >= 0.
C13_BoundaryAtStoredWidth ==
    pathGroup.status = "done" =>
        \A k \in DOMAIN pathGroup.children :
            LET child == pathGroup.children[k]
                row == edge_graph[child.row]
                p1 == waypoints[row.id1]
                p2 == waypoints[row.id2]
                dir == VSub(ScenePos(p2), ScenePos(p1))
            IN  (child.kind = "mesh" /\ dir # V(0, 0)) =>
                   /\ DisplacedBy(child.verts[1], ScenePos(p1), dir, p1.width_left)
                   /\ DisplacedBy(child.verts[2], ScenePos(p1), dir, -p1.width_right)
                   /\ DisplacedBy(child.verts[3], ScenePos(p2), dir, p2.width_left)
                   /\ DisplacedBy(child.verts[4], ScenePos(p2), dir, -p2.width_right)
                   /\ \A i \in 2..4 : child.verts[i].normal = child.verts[1].normal

(***************************************************************************)
(* Properties of the skip set.  A step <<p, c>> goes from p to c along a   *)
(* row; a walk never steps back to the node it has just left.              *)
(***************************************************************************)
\* the steps of walks that leave a node of degree > 2 and have passed only
\* nodes of degree 2, at most k of them
RECURSIVE StepsFromJunctions(_)
StepsFromJunctions(k) ==
    IF k = 0 THEN {q \in PathEdgeSet : RowEnds(q[1]) > 2}
    ELSE LET S == StepsFromJunctions(k - 1)
         IN  S \cup {q \in PathEdgeSet :
                        /\ RowEnds(q[1]) = 2
                        /\ \E p \in S : p[2] = q[1] /\ p[1] # q[2]}

\* the steps from which a walk through at most k nodes of degree 2 arrives at
\* a node of degree > 2
RECURSIVE StepsToJunctions(_)
StepsToJunctions(k) ==
    IF k = 0 THEN {q \in PathEdgeSet : RowEnds(q[2]) > 2}
    ELSE LET S == StepsToJunctions(k - 1)
         IN  S \cup {q \in PathEdgeSet :
                        /\ RowEnds(q[2]) = 2
                        /\ \E n \in S : n[1] = q[2] /\ n[2] # q[1]}

CorridorKeys ==
    {EdgeKey(q[1], q[2]) : q \in StepsFromJunctions(NumNodes) \cap StepsToJunctions(NumNodes)}

StoreScenePos == [id \in Ids |-> ScenePos(waypoints[id])]

\* an iteration of the corner loop whose transaction commits
CommittedCornerStep ==
    /\ pc = "corners"
    /\ turn'.step = turn.step + 1
    /\ turn'.failed = turn.failed

\* C15: the update of every processed corner is computed from the positions
\* the store holds when its iteration starts, that is after the updates of
\* all corners processed before it were committed.
C15_CornerReadsCommittedStore ==
    [][CommittedCornerStep =>
          LET cornerId == Head(turn.queue)
              c == calculateCornerUpdates(cornerId, turn.nb[cornerId], turn.R, turn.nb,
                                          StoreScenePos)
          IN  /\ waypoints' = applyWaypointUpdates(waypoints, c.updates)
              /\ turn'.ids = [i \in DOMAIN c.updates |-> c.updates[i].id]]_vars

\* a corner whose list of ids holds an id that an earlier corner of the pass
\* has moved
C15_Witness ==
    /\ pc = "corners"
    /\ turn.step >= 2
    /\ turn.failed = {}
    /\ Range(turn.ids) \cap turn.movedBefore # {}

\* a generateturn call that goes on to its corner pass
CornerPassStarts == TurnCall /\ pc' = "corners"

\* C16: the corner pass starts after the junction transaction has ended,
\* and its adjacency map and corner list are those of the waypoints and
\* edge_graph tables as the junction pass left them: every id of the table
\* is a key, two ids are neighbours exactly if a row joins them, and the
\* listed corners are the ids with two neighbours; so all inserted arc
\* waypoints and arc edges are in them.
C16_CornerPassSeesJunctionPass ==
    [][CornerPassStarts =>
          /\ turn'.txn \in {"none", "committed", "rolledback"}
          /\ DOMAIN turn'.nb = DOMAIN waypoints'
          /\ \A a \in DOMAIN waypoints', b \in DOMAIN waypoints' :
                (b \in Range(turn'.nb[a])) <=>
                    \E i \in DOMAIN edge_graph' :
                        {edge_graph'[i].id1, edge_graph'[i].id2} = {a, b}
          /\ Range(turn'.queue) =
                {id \in DOMAIN waypoints' : Cardinality(Range(turn'.nb[id])) = 2}]_vars

\* the corner pass is about to start with an arc waypoint of the committed
\* junction pass in its list
C16_Witness ==
    /\ pc = "corners"
    /\ turn.step = 0
    /\ turn.txn = "committed"
    /\ \E id \in Range(turn.queue) : id > turn.seqBefore

\* C17: the position updates of a corner are one transaction: when it fails
\* none of that corner's writes is kept, the positions written for the
\* corners before it stay as committed, and the pass goes on with the
\* corners after it.
C17_CornerTransactionPerCorner ==
    [][FailedCornerStep =>
          /\ waypoints' = waypoints
          /\ pc' = "corners"
          /\ turn'.queue = Tail(turn.queue)]_vars

\* the second corner's transaction failed at its third UPDATE, after the
\* first corner had moved waypoints, and corners are left to process
C17_Witness ==
    /\ pc = "corners"
    /\ turn.failed = {2}
    /\ turn.step = 2
    /\ Len(turn.ids) >= 3
    /\ turn.queue # <<>>
    /\ \E id \in turn.movedBefore : id \in Range(turn.ids)

\* the degree of a node: the number of other waypoints an edge row joins
\* it to
DegreeIn(wps, rows, id) ==
    Cardinality({b \in DOMAIN wps \ {id} :
                    \E i \in DOMAIN rows : {rows[i].id1, rows[i].id2} = {id, b}})

DegreeTwoNodes(wps, rows) ==
    SortedSeq({id \in DOMAIN wps : DegreeIn(wps, rows, id) = 2})

HalfUp(n) == (n + 1) \div 2

\* C18: with the degree-2 nodes c1..cn in adjacency order (ascending id),
\* the corner pass processes c1, ..., cn, c1, ..., c_ceil(n/2) in this
\* order, one per step and n + ceil(n/2) steps in all, and no node of
\* another degree is processed as a corner.
C18_CornerOrder ==
    [][/\ CornerPassStarts =>
            LET C == DegreeTwoNodes(waypoints', edge_graph')
            IN  turn'.queue = C \o SubSeq(C, 1, HalfUp(Len(C)))
       /\ (CornerPassStep /\ turn.queue # <<>>) =>
            /\ turn'.corner = Head(turn.queue)
            /\ turn'.queue = Tail(turn.queue)
            /\ turn'.step = turn.step + 1
            /\ DegreeIn(waypoints, edge_graph, turn'.corner) = 2
       /\ TurnReturns =>
            LET n == Len(DegreeTwoNodes(waypoints, edge_graph))
            IN  turn.queue = <<>> /\ turn.step = n + HalfUp(n)]_vars

(***************************************************************************)
(* Properties of walkPathForDistance.                                      *)
(***************************************************************************)
WalkFuelMax == 30

\* the nodes of the branch that leaves cur away from prev, cur first, as far
\* as the branch goes or, on a branch that runs into a cycle, fuel lasts
RECURSIVE BranchFrom(_, _, _, _)
BranchFrom(nb, prev, cur, fuel) ==
    LET next == FirstOther(nb[cur], prev)
    IN  IF fuel = 0 \/ next = 0 THEN <<cur>>
        ELSE <<cur>> \o BranchFrom(nb, cur, next, fuel - 1)

\* the path lengths from the first node of a branch to each of its nodes
RECURSIVE LengthsAlong(_, _, _)
LengthsAlong(branch, i, acc) ==
    IF i > Len(branch) THEN acc
    ELSE LengthsAlong(branch, i + 1,
             Append(acc, acc[i - 1] + Len16(VSub(WalkPos[branch[i - 1]], WalkPos[branch[i]]))))

\* C19: walkPathForDistance(B, away, d) returns the last node of the walk
\* from B along the branch not starting with away whose path length from B
\* is below d: B itself when the first edge is as long as d or longer, the
\* last node of the branch when the branch ends before d is reached.  (A
\* call that never returns has no result: pOut.result = 0.)
C19_LastNodeBelowDistance ==
    (pOut.fn = "walkPathForDistance" /\ pOut.result # 0) =>
        \E branch \in {BranchFrom(SetAdj(pRows), pOut.end, pOut.start, WalkFuelMax)} :
        \E L \in {LengthsAlong(branch, 2, <<0>>)} :
            LET below == {i \in DOMAIN L : L[i] < pOut.dist}
                m == CHOOSE i \in below : \A k \in below : k <= i
            IN  /\ Len(branch) > WalkFuelMax => L[Len(L)] >= pOut.dist
                /\ pOut.result = branch[m]
                /\ (Len(branch) >= 2 /\ L[2] >= pOut.dist) => pOut.result = pOut.start
                /\ L[Len(L)] < pOut.dist => pOut.result = branch[Len(branch)]

\* a walk that stops at a node after the first edge, with the branch going
\* on beyond the target distance
C19_Witness ==
    /\ pOut.fn = "walkPathForDistance"
    /\ pOut.result \notin {0, pOut.start}
    /\ \E branch \in {BranchFrom(SetAdj(pRows), pOut.end, pOut.start, WalkFuelMax)} :
          /\ pOut.result # branch[Len(branch)]
          /\ LengthsAlong(branch, 2, <<0>>)[Len(branch)] >= pOut.dist

Abs(a) == IF a < 0 THEN -a ELSE a

\* p is num / den rounded to the unit, coordinate by coordinate
RoundedQuotient(p, num, den) ==
    /\ 2 * Abs(den * p.x - num.x) <= den
    /\ 2 * Abs(den * p.y - num.y) <= den

\* (n - k)^2 * S + 2 (n - k) k * B + k^2 * E
BezierNumerator(S, B, E, k, n) ==
    V((n - k) * (n - k) * S.x + 2 * (n - k) * k * B.x + k * k * E.x,
      (n - k) * (n - k) * S.y + 2 * (n - k) * k * B.y + k * k * E.y)

\* C20: a corner's update writes to the j-th id of the S..E list
\* (j = 0..n-1) the position (1-t)^2 S + 2(1-t)t B + t^2 E with t = j/(n-1),
\* S, B and E being the positions of the first id of the list, of the
\* corner and of the last id before the update; the middle id of a list of
\* odd length gets (S + 2B + E)/4, and no other id is written.
C20_BezierPositions ==
    [][(CommittedCornerStep /\ turn'.ids # <<>>) =>
          LET ids == turn'.ids
              n == Len(ids)
              S == ScenePos(waypoints[ids[1]])
              B == ScenePos(waypoints[Head(turn.queue)])
              E == ScenePos(waypoints[ids[n]])
          IN  /\ n >= 2
              /\ \A j \in 1..n :
                    RoundedQuotient(ScenePos(waypoints'[ids[j]]),
                                    BezierNumerator(S, B, E, j - 1, n - 1),
                                    (n - 1) * (n - 1))
              /\ n % 2 = 1 =>
                    RoundedQuotient(ScenePos(waypoints'[ids[(n + 1) \div 2]]),
                                    V(S.x + 2 * B.x + E.x, S.y + 2 * B.y + E.y), 4)
              /\ \A id \in DOMAIN waypoints \ Range(ids) : waypoints'[id] = waypoints[id]]_vars

\* a corner step has moved the middle id of a list of odd length
C20_Witness ==
    /\ pc = "corners"
    /\ turn.failed = {}
    /\ Len(turn.ids) >= 3
    /\ Len(turn.ids) % 2 = 1
    /\ LET mid == turn.ids[(Len(turn.ids) + 1) \div 2]
       IN  ShownPos(mid) # ScenePos(waypoints[mid])

(***************************************************************************)
(* Properties of the junction pass.                                        *)
(***************************************************************************)
\* the pairs of a call that were not skipped, in the order of the call
NonSkipped(pairs) ==
    LET Kept(p) == ~p.skipped
    IN  SelectSeq(pairs, Kept)

\* a call whose junction transaction commits, under a sampling of N points
\* per arc: N - 2 new waypoints and N - 1 new rows per non-skipped pair, the
\* rows of a pair being the chain old id -> new_1 -> ... -> new_(N-2) ->
\* old id over the pair's new waypoints
ArcChains(N) ==
    (TurnCall /\ turn'.txn = "committed") =>
        LET n == Len(NonSkipped(turn'.pairs))
            rows0 == Len(edge_graph)
            Row(m, k) == edge_graph'[rows0 + (m - 1) * (N - 1) + k]
            New(m, k) == seq + (m - 1) * (N - 2) + k
        IN  /\ DOMAIN waypoints' \ DOMAIN waypoints = (seq + 1)..(seq + (N - 2) * n)
            /\ Len(edge_graph') = rows0 + (N - 1) * n
            /\ SubSeq(edge_graph', 1, rows0) = edge_graph
            /\ \A m \in 1..n :
                  /\ Row(m, 1).id1 \in DOMAIN waypoints
                  /\ Row(m, N - 1).id2 \in DOMAIN waypoints
                  /\ \A k \in 1..(N - 2) :
                        Row(m, k).id2 = New(m, k) /\ Row(m, k + 1).id1 = New(m, k)

\* C21: for each non-skipped pair the junction pass samples N = 10 points,
\* leaves out the first and the last, and inserts the N - 2 others as new
\* waypoints joined by N - 1 new edges in one chain attachStart -> new_1 ->
\* ... -> new_(N-2) -> attachEnd.
C21_ArcOfTenSamples == [][ArcChains(numPointsInArc)]_vars

(***************************************************************************)
(* Properties of findClosestNodeOnBranch.                                  *)
(***************************************************************************)
\* the first index of the walk whose node is not strictly closer to the
\* target than every node before it; Len + 1 if there is none
StopIndex(branch, target) ==
    LET D(i) == DistSq(BranchPos[branch[i]], target)
        stops == {i \in 2..Len(branch) : \E k \in 1..(i - 1) : D(i) >= D(k)}
    IN  IF stops = {} THEN Len(branch) + 1
        ELSE CHOOSE i \in stops : \A k \in stops : i <= k

\* C22: findClosestNodeOnBranch(start, prev, target) walks at most 20 steps
\* from start away from prev, stops at the first step whose node is not
\* strictly closer to target than the best node so far, and returns the best
\* node seen: a node of the walk within 20 steps of start, no farther from
\* target than start or any node visited before the stop.
C22_ClosestBeforeStop ==
    pOut.fn = "findClosestNodeOnBranch" =>
        \E branch \in {BranchFrom(BranchAdj(pRows), pOut.end, pOut.start, maxBranchSteps)} :
        \E stop \in {StopIndex(branch, pOut.target)} :
            /\ \E r \in 1..(stop - 1) : pOut.result = branch[r]
            /\ pOut.result = branch[stop - 1]
            /\ Len(branch) <= maxBranchSteps + 1
            /\ \A k \in 1..(stop - 1) :
                  DistSq(BranchPos[pOut.result], pOut.target)
                      <= DistSq(BranchPos[branch[k]], pOut.target)

\* a walk that came closer with each of its 20 steps and was cut there,
\* with the branch going on
C22_Witness ==
    /\ pOut.fn = "findClosestNodeOnBranch"
    /\ \E branch \in {BranchFrom(BranchAdj(pRows), pOut.end, pOut.start, maxBranchSteps)} :
          /\ Len(branch) = maxBranchSteps + 1
          /\ pOut.result = branch[maxBranchSteps + 1]
          /\ FirstOther(BranchAdj(pRows)[pOut.result], branch[maxBranchSteps]) # 0

\* a step of a generateturn call, from its start to its return
TurnStep == TurnCall \/ CornerPassStep

\* C23: generateturn deletes nothing: the junction pass leaves every
\* waypoint row and every edge_graph row that existed before it in place
\* and unchanged, the junction nodes and their edges included, and no later
\* step of the call removes a row; the pass only adds waypoints and edges.
C23_NothingDeleted ==
    [][/\ TurnCall =>
            /\ \A id \in DOMAIN waypoints :
                  id \in DOMAIN waypoints' /\ waypoints'[id] = waypoints[id]
            /\ Len(edge_graph') >= Len(edge_graph)
            /\ SubSeq(edge_graph', 1, Len(edge_graph)) = edge_graph
       /\ TurnStep =>
            /\ DOMAIN waypoints \subseteq DOMAIN waypoints'
            /\ \A i \in DOMAIN edge_graph :
                  \E k \in DOMAIN edge_graph' : edge_graph'[k] = edge_graph[i]]_vars

\* a committed junction pass has added an arc, and the junction node and
\* its rows to both neighbours of the pair are still there
C23_Witness ==
    /\ pc = "corners"
    /\ turn.step = 0
    /\ turn.txn = "committed"
    /\ \E i \in DOMAIN turn.pairs :
          LET pr == turn.pairs[i].pair
          IN  /\ ~turn.pairs[i].skipped
              /\ pr.junction \in DOMAIN waypoints
              /\ \A b \in {pr.b1, pr.b2} :
                    \E k \in DOMAIN edge_graph :
                        {edge_graph[k].id1, edge_graph[k].id2} = {pr.junction, b}

\* C24: whenever generateturn starts its junction pass, the positions it
\* computes with, those of waypointsData, are the positions the waypoints
\* table holds at that moment, after any edits that wrote positions to the
\* table: waypoints dragged with the pointer and linear interpolation.
C24_TurnReadsStoredPositions ==
    [][TurnCall => waypointsData = RefreshWaypointsFromDB(waypoints)]_vars

\* C25: whenever calculateCornerUpdates produces updates for a corner, the
\* id list from S to E the updates are written to contains the corner, on
\* graphs with cycles and with a trim distance longer than the branches too.
C25_CornerOnInterpolatedPath ==
    (pc = "corners" /\ turn.step > 0 /\ turn.ids # <<>>)
        => turn.corner \in Range(turn.ids)

\* C26: the corner pass never changes the position of a node of degree
\* greater than 2: no iteration of the corner loop rewrites the row of a
\* node that has more than two neighbours in the adjacency map of the pass.
C26_JunctionsKeepPosition ==
    [][CornerPassStep =>
          \A id \in DOMAIN turn.nb :
              (Len(turn.nb[id]) > 2 /\ id \in DOMAIN waypoints)
                  => /\ id \in DOMAIN waypoints'
                     /\ waypoints'[id] = waypoints[id]]_vars

\* C27: generateturn is idempotent on the topology: a call that follows a
\* finished call whose junction transaction committed, with the same turn
\* radius and no edit in between, inserts no waypoint row and no edge_graph
\* row.
C27_SecondCallInsertsNothing ==
    [][(TurnCall /\ turn.status = "done" /\ turn.txn = "committed"
          /\ turn'.R = turn.R)
        => /\ DOMAIN waypoints' = DOMAIN waypoints
           /\ Len(edge_graph') = Len(edge_graph)]_vars

\* C28: the walk loop of findPathsToNearestJunctions ends for every junction
\* of every graph drawLane can load: graphs with cycles, chains of degree-2
\* nodes that return to the junction they left, repeated rows and rows that
\* join an id to itself.
C28_WalksEnd ==
    pOut.fn = "edgesToSkip" => ~pOut.diverged

\* the skip set was built for rows with a chain that leaves a junction and
\* returns to it, together with a repeated row or a row from an id to itself
C28_Witness ==
    /\ pOut.fn = "edgesToSkip"
    /\ \E j \in PathNodes :
          /\ Len(SimpleAdj(PathNodes, pRows)[j]) > 2
          /\ \E path \in Range(findPathsToNearestJunctions(j, SimpleAdj(PathNodes, pRows))) :
                /\ Len(path) >= 3
                /\ j \in {path[1][1], path[1][2]}
                /\ j \in {path[Len(path)][1], path[Len(path)][2]}
    /\ \/ \E i \in DOMAIN pRows : pRows[i].id1 = pRows[i].id2
       \/ \E i, k \in DOMAIN pRows : i < k /\ pRows[i] = pRows[k]

\* C29: walkPathForDistance returns for every graph and every target
\* distance, on a closed loop shorter than the target distance and on edges
\* of length 0 between waypoints at the same position too (here on rows none
\* of which joins an id to itself).
C29_WalkReturns ==
    (/\ pOut.fn = "walkPathForDistance"
     /\ \A i \in DOMAIN pRows : pRows[i].id1 # pRows[i].id2)
        => pOut.result # 0

\* C30: in every state of the store reached by addPoint and clicks of the
\* persistent drawing tool, edge_graph holds at most one row per unordered
\* pair of distinct waypoint ids, so the number of rows at a node is the
\* number of its neighbours.
C30_OneRowPerPair ==
    \A i, k \in DOMAIN edge_graph :
        (/\ i < k
         /\ edge_graph[i].id1 # edge_graph[i].id2)
            => {edge_graph[i].id1, edge_graph[i].id2}
                  # {edge_graph[k].id1, edge_graph[k].id2}

====
